---- MODULE Spec2Model ----
(***************************************************************************)
(* Rush "install" and "generate": the marker-file protocol that guards the *)
(* common node_modules folder.                                             *)
(*                                                                         *)
(* The state is the part of the file system the two commands read and      *)
(* write (common/last-install.flag, common/node_modules, common/package.   *)
(* json, common/temp_modules, common/npm-shrinkwrap.json, the NPM tool     *)
(* folder), the rush.json configuration, and the position of the one       *)
(* command that is running.  Every file-system call and every subprocess   *)
(* of the two onExecute() handlers is one step, so that the process can be *)
(* killed between any two of them.                                         *)
(***************************************************************************)
EXTENDS Integers, Sequences, FiniteSets, TLC

\* ------------------------------------------------------------------ bounds
MaxRuns == 2          \* commands started in one behaviour
MaxEdits == 1         \* edits of a project's package.json in one behaviour
MaxFileEdits == 2     \* edits made by hand to rush.json, package.json or temp_modules

\* ------------------------------------------------------- program constants
MAX_INSTALL_ATTEMPTS == 5

\* The temp projects of the repository (rushProject.tempProjectName).
TempNames == {"rush-a", "rush-b"}

NmStates == {"absent", "empty", "indeterminate", "complete"}
ToolStates == {"absent", "empty", "indeterminate", "installed", "flagged"}

VARIABLES
  \* --- file system
  flagExists,     \* common/last-install.flag exists
  flagTime,       \* its modification time
  nmState,        \* common/node_modules: one of NmStates
  nmOf,           \* the temp_modules contents a complete node_modules was installed from
  nmRush,         \* the rush-* folders inside node_modules
  nmTime,         \* modification time of the node_modules folder
  pkgTime,        \* modification time of common/package.json
  tm,             \* temp_modules/<name>/package.json: 0 = no file, k = generated from revision k
  tmTime,         \* newest modification time among those files
  sw,             \* common/npm-shrinkwrap.json exists
  tool,           \* the NPM tool folder: one of ToolStates ("flagged" = installed, flag file written)
  toolLink,       \* common/npm-local points at the tool folder
  recycler,       \* folders moved to the recycler wait there to be deleted
  now,            \* the newest modification time handed out
  \* --- configuration
  cfg,            \* revision of the projects' package.json files
  cacheFolder,    \* rushConfiguration.cacheFolder is set
  \* --- the running command
  run,            \* "none", "install" or "generate"
  pc,             \* its position
  cleanInstall,   \* --clean
  cleanInstallFull, \* --full-clean
  lazy,           \* --lazy
  force,          \* --force
  needToInstall,
  skipPrune,
  attempt,        \* attempt number inside executeCommandWithRetry
  shouldDelete,   \* shouldDeleteNodeModules
  todo,           \* the glob result a loop is walking
  events,         \* what the command has done so far, in order
  \* --- history
  runs,           \* commands started so far
  nmTouched,      \* the command has modified node_modules
  lastKilledDirty, \* the previous command was an install killed after it modified node_modules
  afterKilledDirty, \* ... and this command is the one that follows it
  atStart,        \* the marker and the node_modules folder when the command started
  installedLast,  \* the last command to end was an install that ended by creating the marker
  \* --- the contents of the files the consistency check reads
  projects,       \* rushConfiguration.projects: the packageNames, in rush.json order
  projectDeps,    \* each project's package.json: its dependencies
  tempModulesFolder, \* common/temp_modules: folder name -> the package.json in it
  checkResult,    \* what _checkThatTempModulesMatch did on these files
  sincePass,      \* the one edit made since the check last passed, if it is just one
  fileEdits,      \* edits made by hand so far
  \* --- the files "rush generate" decides on
  shrinkwrapFile, \* common/npm-shrinkwrap.json: whether it exists, and its dependencies
  analyzed,       \* the shrinkwrap file as the last "rush generate" found it
  generates,      \* the last two "rush generate" runs: what each was given and decided
  manifestsChanged, \* a package.json was edited after the last of them
  \* --- what "rush generate" writes into the common folder
  pinnedVersions, \* rushConfiguration.pinnedVersions: name and version, in map order
  commonPackageJson, \* common/package.json
  written         \* how the last writing of temp_modules and package.json ended, and on what

fsVars == <<flagExists, flagTime, nmState, nmOf, nmRush, nmTime, pkgTime, tm, tmTime,
            sw, tool, toolLink, recycler, now>>
cfgVars == <<cfg, cacheFolder>>
argVars == <<cleanInstall, cleanInstallFull, lazy, force>>
runVars == <<run, pc, needToInstall, skipPrune, attempt, shouldDelete, todo, events>>
histVars == <<runs, nmTouched, lastKilledDirty, afterKilledDirty, atStart, installedLast>>
checkVars == <<projects, projectDeps, tempModulesFolder, checkResult, sincePass, fileEdits>>
genVars == <<shrinkwrapFile, analyzed, generates, manifestsChanged>>
pkgVars == <<pinnedVersions, commonPackageJson, written>>
dataVars == <<checkVars, genVars, pkgVars>>
mainVars == <<fsVars, cfgVars, argVars, runVars, histVars>>
vars == <<mainVars, dataVars>>

NoTemp == [n \in TempNames |-> 0]

Snapshot == [flagExists |-> flagExists, flagTime |-> flagTime, nmState |-> nmState,
             nmOf |-> nmOf, nmRush |-> nmRush, nmTime |-> nmTime]
NoSnapshot == [flagExists |-> FALSE, flagTime |-> 0, nmState |-> "absent",
               nmOf |-> NoTemp, nmRush |-> {}, nmTime |-> 0]

\* A fresh modification time for a file whose current one is t: later than every
\* other file's.  Rewriting the file that was written last keeps the order of all
\* modification times, so the clock need not advance for it.
Touch(t) == IF t = now /\ now > 0 THEN now ELSE now + 1

Ev(op, exit) == [op |-> op, exit |-> exit]
\* The log with e added; a failure repeated by a retry is logged once.
Logged(e) == IF events # <<>> /\ events[Len(events)] = e /\ e.exit # 0
             THEN events ELSE Append(events, e)
Did(op) == \E i \in 1..Len(events) : events[i].op = op
Count(op) == Cardinality({i \in 1..Len(events) : events[i].op = op})
FirstIndex(op) == CHOOSE i \in 1..Len(events) :
                    events[i].op = op /\ \A j \in 1..(i - 1) : events[j].op # op

ExitCodes == {0, 1}

\* ------------------------------------------- projects, manifests, versions

\* The packages of the repository and their temp projects
\* (rushProject.packageName, rushProject.tempProjectName).
ProjectNames == {"a", "b"}
\* A scoped package; its temp project is named after the part behind the scope.
ScopedNames == {"@s/a"}
PackageNames == ProjectNames \cup ScopedNames
TempProjectName == [p \in PackageNames |-> IF p = "@s/a" THEN "rush-a" ELSE "rush-" \o p]

\* The folders glob.sync finds in common/temp_modules, in the order it returns them.
SortedFolders == <<"rush-0", "rush-a", "rush-b", "rush-z">>
Folders == {SortedFolders[i] : i \in 1..Len(SortedFolders)}

\* A version is <<major, minor, patch>>.  A dependency's value is a range "^x.y.z"
\* or a reference to a local folder.
Caret(v) == [kind |-> "caret", v |-> v, path |-> ""]
LocalRef(folder) == [kind |-> "file", v |-> <<0, 0, 0>>, path |-> folder]
\* The range a project's package.json asks for in revision k of the configuration.
RangeOfRevision(k) == Caret(<<1, k, 0>>)

NoDependencies == [n \in {} |-> Caret(<<0, 0, 0>>)]
Elements(seq) == {seq[i] : i \in 1..Len(seq)}

\* TempModuleGenerator: one manifest per project, named after the temp project;
\* a dependency on another project of the repository refers to its temp module.
TempModuleOf(p, packageNames, deps) ==
  [name |-> TempProjectName[p], version |-> "0.0.0", private |-> TRUE,
   dependencies |-> [n \in DOMAIN deps[p] |->
                       IF n \in packageNames \ {p}
                         THEN LocalRef(TempProjectName[n]) ELSE deps[p][n]]]

TempModuleGenerator(projectList, deps) ==
  [p \in Elements(projectList) |-> TempModuleOf(p, Elements(projectList), deps)]

\* What "rush generate" writes into common/temp_modules: the folder of a project
\* is its tempProjectName.
GeneratedFolder(projectList, deps) ==
  [f \in {TempProjectName[p] : p \in Elements(projectList)} |->
     TempModuleOf(CHOOSE p \in Elements(projectList) : TempProjectName[p] = f,
                  Elements(projectList), deps)]

\* ------------------------------------ InstallAction._checkThatTempModulesMatch

\* this._tempModulesFiles: the package.json files found, in glob order
TempModulesFiles(folder) ==
  SelectSeq(SortedFolders, LAMBDA f : f \in DOMAIN folder)

\* tempModules[contents.name] = {...}: the keys in insertion order; a later file
\* with the same name replaces the entry of an earlier one.
TempModuleKeys(folder) ==
  LET fs == TempModulesFiles(folder)
      first == {i \in 1..Len(fs) : \A j \in 1..(i - 1) : folder[fs[j]].name # folder[fs[i]].name}
  IN  [k \in 1..Cardinality(first) |->
         folder[fs[CHOOSE i \in first :
                      Cardinality({j \in first : j < i}) = k - 1]].name]

\* tempModules[name].filename: the last file read that carries the name
TempModuleFilename(folder, name) ==
  LET fs == TempModulesFiles(folder)
      last == CHOOSE i \in 1..Len(fs) :
                /\ folder[fs[i]].name = name
                /\ \A j \in (i + 1)..Len(fs) : folder[fs[j]].name # name
  IN  fs[last]

HasTempModule(folder, name) == \E f \in DOMAIN folder : folder[f].name = name

\* Mutant: the temp module's name is compared with project.packageName.
FoundMatchingProjectByPackageName(projectList, tempModuleName) ==
  \E p \in Elements(projectList) : p = tempModuleName

\* 1st loop: project.tempProjectName === tempModuleName for some project
FoundMatchingProject(projectList, tempModuleName) ==
  \E p \in Elements(projectList) : TempProjectName[p] = tempModuleName

\* Mutant: a project without a temp module is passed over.
ProjectDefectSkipMissing(folder, projectList, deps, p) ==
  IF ~HasTempModule(folder, TempProjectName[p]) THEN "ok"
  ELSE IF TempModuleGenerator(projectList, deps)[p]
            # folder[TempModuleFilename(folder, TempProjectName[p])]
    THEN "drift"
  ELSE "ok"

\* 2nd loop, one project: no temp module, or one that differs from the expected
ProjectDefect(folder, projectList, deps, p) ==
  IF ~HasTempModule(folder, TempProjectName[p]) THEN "missing"
  ELSE IF TempModuleGenerator(projectList, deps)[p]
            # folder[TempModuleFilename(folder, TempProjectName[p])]
    THEN "drift"
  ELSE "ok"

CheckOk == [kind |-> "ok", subject |-> ""]
NotChecked == [kind |-> "notrun", subject |-> ""]

\* The error thrown, if any: the first temp module without a project, else the
\* first project (in rush.json order) without a temp module or with a stale one.
CheckTempModules(folder, projectList, deps) ==
  LET keys == TempModuleKeys(folder)
      orphans == {i \in 1..Len(keys) : ~FoundMatchingProject(projectList, keys[i])}
      bad == {i \in 1..Len(projectList) :
                ProjectDefect(folder, projectList, deps, projectList[i]) # "ok"}
  IN  IF orphans # {}
        THEN LET i == CHOOSE x \in orphans : \A y \in orphans : x <= y
             IN  [kind |-> "orphan", subject |-> TempModuleFilename(folder, keys[i])]
      ELSE IF bad # {}
        THEN LET i == CHOOSE x \in bad : \A y \in bad : x <= y
             IN  [kind |-> ProjectDefect(folder, projectList, deps, projectList[i]),
                  subject |-> projectList[i]]
      ELSE CheckOk

\* -------------------------------------- GenerateAction._shouldDeleteNodeModules

\* Versions the registry has of a package.
Published == {<<1, 1, 0>>, <<1, 2, 5>>, <<2, 0, 0>>}

\* v is at least w, field by field from the left.
AtLeast(v, w) ==
  \/ v[1] > w[1]
  \/ v[1] = w[1] /\ v[2] > w[2]
  \/ v[1] = w[1] /\ v[2] = w[2] /\ v[3] >= w[3]

\* semver.satisfies(version, range): "^x.y.z" admits the versions from x.y.z up
\* that keep the leftmost nonzero field; a "file:" reference is no range and
\* admits nothing.
Satisfies(version, range) ==
  /\ range.kind = "caret"
  /\ AtLeast(version, range.v)
  /\ IF range.v[1] > 0 THEN version[1] = range.v[1]
     ELSE IF range.v[2] > 0 THEN version[1] = 0 /\ version[2] = range.v[2]
     ELSE version = range.v

\* An IShrinkwrapDependency and the file holding them.
NoEntries == [n \in {} |-> <<0, 0, 0>>]
ShrinkwrapDependency(v, nested) == [version |-> v, dependencies |-> nested]
ShrinkwrapFile(entries) == [exists |-> TRUE, dependencies |-> entries]
NoShrinkwrapFile == [exists |-> FALSE, dependencies |-> NoEntries]

\* Mutant: the root of the shrinkwrap is asked first.
CanFindDependencyInShrinkwrapRootFirst(shrinkwrap, dependency, version, rushPackageName) ==
  LET deps == shrinkwrap.dependencies
      inRoot == IF dependency \in DOMAIN deps THEN {deps[dependency]} ELSE {}
      nested == IF /\ rushPackageName \in DOMAIN deps
                   /\ dependency \in DOMAIN deps[rushPackageName].dependencies
                  THEN {deps[rushPackageName].dependencies[dependency]}
                ELSE {}
      shrinkwrapDependency == IF inRoot # {} THEN inRoot ELSE nested
  IN  \E e \in shrinkwrapDependency : Satisfies(e.version, version)

\* _canFindDependencyInShrinkwrap: the entry under rushPackageName if there is
\* one, else the entry in the root; found when its version satisfies the range.
CanFindDependencyInShrinkwrap(shrinkwrap, dependency, version, rushPackageName) ==
  LET deps == shrinkwrap.dependencies
      nested == IF /\ rushPackageName \in DOMAIN deps
                   /\ dependency \in DOMAIN deps[rushPackageName].dependencies
                  THEN {deps[rushPackageName].dependencies[dependency]}
                ELSE {}
      inRoot == IF dependency \in DOMAIN deps THEN {deps[dependency]} ELSE {}
      shrinkwrapDependency == IF nested # {} THEN nested ELSE inRoot
  IN  \E e \in shrinkwrapDependency : Satisfies(e.version, version)

\* Mutant: an entry in the root of the shrinkwrap that no temp module asks for
\* counts as a mismatch too.
HasFoundMissingOrUnusedDependency(shrinkwrap, tempModules) ==
  \/ \E projectName \in DOMAIN tempModules :
       \E dependency \in DOMAIN tempModules[projectName].dependencies :
         ~CanFindDependencyInShrinkwrap(shrinkwrap, dependency,
                                        tempModules[projectName].dependencies[dependency],
                                        TempProjectName[projectName])
  \/ \E k \in DOMAIN shrinkwrap.dependencies :
       /\ k \notin {TempProjectName[q] : q \in ProjectNames}
       /\ \A projectName \in DOMAIN tempModules :
            k \notin DOMAIN tempModules[projectName].dependencies

\* hasFoundMissingDependency after the two forEach loops
HasFoundMissingDependency(shrinkwrap, tempModules) ==
  \E projectName \in DOMAIN tempModules :
    \E dependency \in DOMAIN tempModules[projectName].dependencies :
      ~CanFindDependencyInShrinkwrap(shrinkwrap, dependency,
                                     tempModules[projectName].dependencies[dependency],
                                     TempProjectName[projectName])

\* The value _shouldDeleteNodeModules returns.
ShouldDelete(file, tempModules) ==
  IF ~file.exists THEN TRUE ELSE HasFoundMissingDependency(file, tempModules)

\* ------------------------------------------------------------ "npm shrinkwrap"

FolderIndex(f) == CHOOSE i \in 1..Len(SortedFolders) : SortedFolders[i] = f

\* The version "npm install" picks for a range: the newest one published that
\* satisfies it.
Resolve(range) ==
  CHOOSE v \in Published :
    /\ Satisfies(v, range)
    /\ \A w \in Published : Satisfies(w, range) => AtLeast(v, w)

\* The file "npm shrinkwrap" writes after an install into an empty node_modules:
\* every temp project in the root; a package in the root at the version picked
\* for the first temp project asking for it, and again under each temp project
\* whose range that version does not satisfy.
NpmShrinkwrap(tempModules) ==
  LET deps(p) == tempModules[p].dependencies
      asks(p, n) == n \in DOMAIN deps(p) /\ deps(p)[n].kind = "caret"
      names == {n \in UNION {DOMAIN deps(p) : p \in DOMAIN tempModules} :
                  \E p \in DOMAIN tempModules : asks(p, n)}
      first(n) == CHOOSE p \in DOMAIN tempModules :
                    /\ asks(p, n)
                    /\ \A q \in DOMAIN tempModules :
                         asks(q, n) => FolderIndex(TempProjectName[p])
                                         <= FolderIndex(TempProjectName[q])
      rootVersion(n) == Resolve(deps(first(n))[n])
      nestedOf(p) == [n \in {m \in DOMAIN deps(p) :
                               asks(p, m) /\ ~Satisfies(rootVersion(m), deps(p)[m])} |->
                        ShrinkwrapDependency(Resolve(deps(p)[n]), NoEntries)]
      temps == {TempProjectName[p] : p \in DOMAIN tempModules}
  IN  ShrinkwrapFile(
        [k \in names \cup temps |->
           IF k \in temps
             THEN ShrinkwrapDependency(<<0, 0, 0>>,
                    nestedOf(CHOOSE p \in DOMAIN tempModules : TempProjectName[p] = k))
           ELSE ShrinkwrapDependency(rootVersion(k), NoEntries)])

\* --------------------- GenerateAction._createCommonTempModulesAndPackageJson

\* obj[key] = value on a JavaScript object, kept as its properties in order: a
\* new key goes last, a key already there keeps its place and gets the value.
SetProperty(obj, key, value) ==
  IF \E i \in 1..Len(obj) : obj[i].name = key
    THEN [i \in 1..Len(obj) |-> IF obj[i].name = key
                                  THEN [name |-> key, value |-> value] ELSE obj[i]]
  ELSE Append(obj, [name |-> key, value |-> value])

RECURSIVE SetProperties(_, _)
SetProperties(obj, pairs) ==
  IF pairs = <<>> THEN obj
  ELSE SetProperties(SetProperty(obj, Head(pairs).name, Head(pairs).value), Tail(pairs))

\* Mutant: the projects are taken in rush.json order.
UnsortedRushProjects(projectList) == projectList

\* sortedRushProjects: the projects by tempProjectName; projects of the same
\* tempProjectName stay in rush.json order.
SortedRushProjects(projectList) ==
  LET n == Len(projectList)
      before(i, j) ==
        \/ FolderIndex(TempProjectName[projectList[i]]) < FolderIndex(TempProjectName[projectList[j]])
        \/ /\ TempProjectName[projectList[i]] = TempProjectName[projectList[j]]
           /\ i < j
      rank(i) == Cardinality({j \in 1..n : before(j, i)}) + 1
  IN  [k \in 1..n |-> projectList[CHOOSE i \in 1..n : rank(i) = k]]

\* The package.json of "rush-common": the pinned versions, then one dependency
\* per temp project, in sorted order.
CommonPackageJson(projectList, pinned) ==
  LET sorted == SortedRushProjects(projectList)
  IN  [exists |-> TRUE, name |-> "rush-common", version |-> "0.0.0", private |-> TRUE,
       dependencies |->
         SetProperties(SetProperties(<<>>, pinned),
                       [i \in 1..Len(sorted) |->
                          [name |-> TempProjectName[sorted[i]],
                           value |-> "file:./temp_modules/" \o TempProjectName[sorted[i]]]])]

NoPackageJson == [exists |-> FALSE, name |-> "", version |-> "", private |-> FALSE,
                  dependencies |-> <<>>]

\* TempModuleGenerator refuses two projects of the same tempProjectName.
TempModuleGeneratorFails(projectList) ==
  \E i, j \in 1..Len(projectList) :
    i # j /\ TempProjectName[projectList[i]] = TempProjectName[projectList[j]]

\* fsx.mkdirSync(tempProjectFolder) throws when the folder is there already:
\* the first project, in sorted order, whose folder an earlier one has made (0
\* when there is none).
MkdirSyncFailsAt(sorted) ==
  LET clashes == {j \in 1..Len(sorted) :
                    \E i \in 1..(j - 1) : TempProjectName[sorted[i]] = TempProjectName[sorted[j]]}
  IN  IF clashes = {} THEN 0 ELSE CHOOSE j \in clashes : \A k \in clashes : j <= k

\* common/temp_modules after the package.json files of these projects have been
\* saved one after the other.
SavedTempModules(sorted, deps) ==
  [f \in {TempProjectName[sorted[i]] : i \in 1..Len(sorted)} |->
     LET last == CHOOSE i \in 1..Len(sorted) :
                   /\ TempProjectName[sorted[i]] = f
                   /\ \A j \in (i + 1)..Len(sorted) : TempProjectName[sorted[j]] # f
     IN  TempModuleOf(sorted[last], Elements(sorted), deps)]

NotWritten == [status |-> "none", projects |-> <<>>, pinnedVersions |-> <<>>]
WrittenFrom(status, projectList, pinned) ==
  [status |-> status, projects |-> projectList, pinnedVersions |-> pinned]

\* common/package.json and the pinned versions are not followed.
PackageJsonNotFollowed ==
  pinnedVersions = <<>> /\ commonPackageJson = NoPackageJson /\ written = NotWritten

\* A clone of the repository in which nothing has been installed yet.
FreshClone ==
  /\ flagExists = FALSE /\ flagTime = 0
  /\ nmState = "absent" /\ nmOf = NoTemp /\ nmRush = {} /\ nmTime = 0
  /\ tool = "absent" /\ toolLink = FALSE
  /\ now = 0

\* A repository in which "rush install" has succeeded: what a successful
\* install run leaves behind a fresh clone.
InstalledBefore ==
  /\ flagExists = TRUE /\ flagTime = 2
  /\ nmState = "complete" /\ nmOf = [n \in TempNames |-> 1] /\ nmRush = TempNames
  /\ nmTime = 1
  /\ tool = "flagged" /\ toolLink = TRUE
  /\ now = 2

\* The configuration in revision k: both projects, each depending on "d".
DepsOfRevision(k) == [p \in ProjectNames |-> [n \in {"d"} |-> RangeOfRevision(k)]]
ProjectsOfRevision == <<"a", "b">>

\* The temp_modules files behind tm: the file of revision k is the one generated
\* from revision k of the configuration.
FolderOfRevisions(t) ==
  [f \in {n \in TempNames : t[n] # 0} |->
     TempModuleOf(CHOOSE p \in ProjectNames : TempProjectName[p] = f,
                  ProjectNames, DepsOfRevision(t[f]))]

NoEdit == [state |-> "none", op |-> "", file |-> ""]

\* The file contents are not followed while the commands are stepped through.
FilesAsGenerated ==
  /\ projects = ProjectsOfRevision /\ projectDeps = DepsOfRevision(1)
  /\ tempModulesFolder = GeneratedFolder(projects, projectDeps)
  /\ checkResult = NotChecked /\ sincePass = NoEdit /\ fileEdits = 0
  /\ shrinkwrapFile = NoShrinkwrapFile /\ analyzed = NoShrinkwrapFile
  /\ generates = <<>> /\ manifestsChanged = FALSE
  /\ PackageJsonNotFollowed

Init ==
  /\ FilesAsGenerated
  /\ FreshClone \/ InstalledBefore
  /\ pkgTime = 0
  /\ tm = [n \in TempNames |-> 1] /\ tmTime = 0
  /\ sw \in BOOLEAN
  /\ recycler = FALSE
  /\ cfg = 1 /\ cacheFolder \in BOOLEAN
  /\ run = "none" /\ pc = "idle"
  /\ cleanInstall = FALSE /\ cleanInstallFull = FALSE /\ lazy = FALSE /\ force = FALSE
  /\ needToInstall = FALSE /\ skipPrune = FALSE /\ attempt = 0 /\ shouldDelete = FALSE
  /\ todo = {} /\ events = <<>>
  /\ runs = 0 /\ nmTouched = FALSE /\ lastKilledDirty = FALSE /\ afterKilledDirty = FALSE
  /\ installedLast = FALSE
  /\ atStart = NoSnapshot

\* ------------------------------------------------- collaborators (rush-lib)

\* Utilities.isFileTimestampCurrent(output, inputs): the output exists, every
\* input exists, and no input is newer than the output.
IsFileTimestampCurrent(outExists, outTime, inputs) ==
  /\ outExists
  /\ \A f \in inputs : f.exists /\ ~(outTime < f.time)

\* Utilities.executeCommandWithRetry: exit code 0 ends the loop; a nonzero exit
\* is retried at once until maxAttempts invocations have been made, and the
\* last one's failure is thrown.
ExecuteCommandWithRetry(exit, maxAttempts, okPc) ==
  IF exit = 0 THEN pc' = okPc /\ attempt' = 0
  ELSE IF attempt < maxAttempts THEN pc' = pc /\ attempt' = attempt + 1
  ELSE pc' = "failed" /\ attempt' = attempt

\* Utilities.executeCommand: one invocation, a nonzero exit is thrown.
ExecuteCommand(exit, okPc) ==
  pc' = IF exit = 0 THEN okPc ELSE "failed"

\* What "npm install" leaves in common/node_modules.
NpmInstallEffect(exit) ==
  /\ nmState' = IF exit = 0 THEN "complete" ELSE "indeterminate"
  /\ nmOf' = IF exit = 0 THEN tm ELSE NoTemp
  /\ nmRush' = IF exit = 0 THEN {n \in TempNames : tm[n] # 0} ELSE nmRush
  /\ nmTime' = Touch(nmTime) /\ now' = Touch(nmTime)

\* What "npm prune" leaves there: nothing to do without the folder.
NpmPruneEffect ==
  IF nmState = "absent" THEN UNCHANGED <<nmState, nmOf, nmRush, nmTime, now>>
  ELSE /\ nmState' = IF nmState = "empty" THEN "empty" ELSE "indeterminate"
       /\ nmOf' = NoTemp
       /\ nmTime' = Touch(nmTime) /\ now' = Touch(nmTime)
       /\ UNCHANGED nmRush

\* AsyncRecycle.recycleDirectory(node_modules): the folder leaves its path (it is
\* moved into the recycler) and is deleted later, in the background.
RecycleNodeModules ==
  /\ nmState' = "absent" /\ nmOf' = NoTemp /\ nmRush' = {} /\ nmTime' = 0
  /\ recycler' = TRUE

\* ------------------------------------------------------------ rush install

StartInstall(c, f) ==
  /\ pc = "idle" /\ runs < MaxRuns
  /\ run' = "install" /\ pc' = "i_check"
  /\ cleanInstall' = c /\ cleanInstallFull' = f
  /\ runs' = runs + 1 /\ nmTouched' = FALSE
  /\ afterKilledDirty' = lastKilledDirty /\ lastKilledDirty' = FALSE
  /\ atStart' = Snapshot
  /\ UNCHANGED <<fsVars, cfgVars, dataVars, lazy, force, needToInstall, skipPrune, attempt,
                 shouldDelete, todo, events, installedLast>>

\* _checkThatTempModulesMatch: every project has a temp_modules file and it equals
\* the one TempModuleGenerator makes from the current configuration.
TempModulesMatch ==
  CheckTempModules(FolderOfRevisions(tm), ProjectsOfRevision, DepsOfRevision(cfg)) = CheckOk

\* Mutant: a mismatch is reported and the run goes on.
CheckThatTempModulesMatchWarnOnly ==
  /\ run = "install" /\ pc = "i_check"
  /\ pc' = "t_check"
  /\ UNCHANGED <<fsVars, cfgVars, dataVars, argVars, histVars, run, needToInstall, skipPrune,
                 attempt, shouldDelete, todo, events>>

CheckThatTempModulesMatch ==
  /\ run = "install" /\ pc = "i_check"
  /\ pc' = IF TempModulesMatch THEN "t_check" ELSE "failed"
  /\ UNCHANGED <<fsVars, cfgVars, dataVars, argVars, histVars, run, needToInstall, skipPrune, attempt,
                 shouldDelete, todo, events>>

\* ------------------------------------------- InstallAction.ensureLocalNpmTool

\* The cleanInstall argument: rush install passes --full-clean, rush generate false.
ToolCleanInstall == run = "install" /\ cleanInstallFull

NpmToolFlagFileExists == tool = "flagged"

\* Mutant: --clean reinstalls the tool as --full-clean does.
ToolMustInstallOnAnyClean ==
  (run = "install" /\ (cleanInstall \/ cleanInstallFull)) \/ ~NpmToolFlagFileExists

ToolMustInstall == ToolCleanInstall \/ ~NpmToolFlagFileExists

ToolCheck ==
  /\ pc = "t_check"
  /\ pc' = IF ToolMustInstall THEN "t_delete" ELSE "t_link"
  /\ UNCHANGED <<fsVars, cfgVars, dataVars, argVars, histVars, run, needToInstall, skipPrune,
                 attempt, shouldDelete, todo, events>>

\* dangerouslyDeletePath(npmToolFolder), when the folder exists
ToolDelete ==
  /\ pc = "t_delete"
  /\ tool' = "absent"
  /\ events' = IF tool # "absent" THEN Append(events, Ev("toolDelete", 0)) ELSE events
  /\ pc' = "t_create"
  /\ UNCHANGED <<flagExists, flagTime, nmState, nmOf, nmRush, nmTime, pkgTime, tm, tmTime,
                 sw, toolLink, recycler, now, cfgVars, dataVars, argVars, histVars, run,
                 needToInstall, skipPrune, attempt, shouldDelete, todo>>

\* createFolderWithRetry(npmToolFolder) and its package.json
ToolCreate ==
  /\ pc = "t_create"
  /\ tool' = "empty"
  /\ pc' = "t_npm" /\ attempt' = 1
  /\ UNCHANGED <<flagExists, flagTime, nmState, nmOf, nmRush, nmTime, pkgTime, tm, tmTime,
                 sw, toolLink, recycler, now, cfgVars, dataVars, argVars, histVars, run,
                 needToInstall, skipPrune, shouldDelete, todo, events>>

\* "npm install" in the tool folder, with the npm found in the PATH
ToolNpmInstall(exit) ==
  /\ pc = "t_npm"
  /\ tool' = IF exit = 0 THEN "installed" ELSE "indeterminate"
  /\ events' = Logged(Ev("toolInstall", exit))
  /\ ExecuteCommandWithRetry(exit, MAX_INSTALL_ATTEMPTS, "t_flag")
  /\ UNCHANGED <<flagExists, flagTime, nmState, nmOf, nmRush, nmTime, pkgTime, tm, tmTime,
                 sw, toolLink, recycler, now, cfgVars, dataVars, argVars, histVars, run,
                 needToInstall, skipPrune, shouldDelete, todo>>

\* fsx.writeFileSync(npmToolFlagFile, '')
ToolWriteFlag ==
  /\ pc = "t_flag"
  /\ tool' = "flagged"
  /\ events' = Append(events, Ev("toolFlag", 0))
  /\ pc' = "t_link"
  /\ UNCHANGED <<flagExists, flagTime, nmState, nmOf, nmRush, nmTime, pkgTime, tm, tmTime,
                 sw, toolLink, recycler, now, cfgVars, dataVars, argVars, histVars, run,
                 needToInstall, skipPrune, attempt, shouldDelete, todo>>

\* common/npm-local is unlinked and linked again
ToolLink ==
  /\ pc = "t_link"
  /\ toolLink' = TRUE
  /\ pc' = IF run = "install" THEN "i_mod" ELSE "g_install"
  /\ UNCHANGED <<flagExists, flagTime, nmState, nmOf, nmRush, nmTime, pkgTime, tm, tmTime,
                 sw, tool, recycler, now, cfgVars, dataVars, argVars, histVars, run,
                 needToInstall, skipPrune, attempt, shouldDelete, todo, events>>

\* ---------------------------------------- InstallAction._installCommonModules

\* Mutant: the marker file is left in place.
UnlinkMarkerSkipped == UNCHANGED <<flagExists, flagTime>>

\* fsx.unlinkSync(commonNodeModulesMarkerFilename)
UnlinkMarker == flagExists' = FALSE /\ flagTime' = 0

\* Mutant: the cache is cleaned whether or not a cache folder is configured.
HasCacheFolderAlways == TRUE

\* if (this._rushConfiguration.cacheFolder)
HasCacheFolder == cacheFolder

NpmToolFilenameExists == toolLink /\ tool \in {"installed", "flagged"}

\* Mutant: --full-clean alone does not count as a clean install.
CleanRequestedOnlyClean == cleanInstall

CleanRequested == cleanInstall \/ cleanInstallFull

\* Mutant: only package.json is compared with the marker.
PackageJsonFilenamesOnly == {[exists |-> TRUE, time |-> pkgTime]}

\* package.json, the node_modules folder and the temp_modules files
PackageJsonFilenames ==
  {[exists |-> TRUE, time |-> pkgTime], [exists |-> nmState # "absent", time |-> nmTime]}
    \cup (IF \E n \in TempNames : tm[n] # 0
          THEN {[exists |-> TRUE, time |-> tmTime]} ELSE {})

\* Mutant: a missing marker file counts as current.
MarkerIsCurrentIgnoringMissing ==
  ~flagExists \/ IsFileTimestampCurrent(flagExists, flagTime, PackageJsonFilenames)

\* Mutant: the marker file never counts as current.
MarkerNeverCurrent == FALSE

MarkerIsCurrent == IsFileTimestampCurrent(flagExists, flagTime, PackageJsonFilenames)

\* The sanity check, and the branch on --clean / --full-clean or the time stamps.
InstallDecide ==
  /\ run = "install" /\ pc = "i_mod"
  /\ IF ~NpmToolFilenameExists
       THEN pc' = "failed" /\ UNCHANGED needToInstall
     ELSE IF CleanRequested
       THEN pc' = "c_unlink" /\ UNCHANGED needToInstall
     ELSE /\ needToInstall' = ~MarkerIsCurrent
          /\ pc' = IF needToInstall' THEN "n_marker" ELSE "done"
  /\ UNCHANGED <<fsVars, cfgVars, dataVars, argVars, histVars, run, skipPrune, attempt,
                 shouldDelete, todo, events>>

\* The marker is unlinked when it exists
CleanUnlinkMarker ==
  /\ pc = "c_unlink"
  /\ IF flagExists THEN UnlinkMarker ELSE UNCHANGED <<flagExists, flagTime>>
  /\ events' = IF flagExists THEN Append(events, Ev("unlinkMarker", 0)) ELSE events
  /\ pc' = "c_delete"
  /\ UNCHANGED <<nmState, nmOf, nmRush, nmTime, pkgTime, tm, tmTime, sw, tool, toolLink,
                 recycler, now, cfgVars, dataVars, argVars, histVars, run, needToInstall, skipPrune,
                 attempt, shouldDelete, todo>>

\* dangerouslyDeletePath(commonNodeModulesFolder), when the folder exists
CleanDeleteNodeModules ==
  /\ pc = "c_delete"
  /\ IF nmState # "absent"
       THEN /\ nmState' = "absent" /\ nmOf' = NoTemp /\ nmRush' = {} /\ nmTime' = 0
            /\ events' = Append(events, Ev("deleteNodeModules", 0))
            /\ nmTouched' = TRUE
            /\ pc' = "c_create"
       ELSE /\ UNCHANGED <<nmState, nmOf, nmRush, nmTime, events, nmTouched>>
            /\ pc' = "c_cache"
  /\ UNCHANGED <<flagExists, flagTime, pkgTime, tm, tmTime, sw, tool, toolLink, recycler, now,
                 cfgVars, dataVars, argVars, run, needToInstall, skipPrune, attempt, shouldDelete, todo,
                 runs, lastKilledDirty, afterKilledDirty, atStart,
                 installedLast>>

\* createFolderWithRetry(commonNodeModulesFolder)
CleanCreateNodeModules ==
  /\ pc = "c_create"
  /\ nmState' = "empty" /\ nmTime' = Touch(nmTime) /\ now' = Touch(nmTime)
  /\ events' = Append(events, Ev("createNodeModules", 0))
  /\ pc' = "c_cache"
  /\ UNCHANGED <<flagExists, flagTime, nmOf, nmRush, pkgTime, tm, tmTime, sw, tool, toolLink,
                 recycler, cfgVars, dataVars, argVars, histVars, run, needToInstall, skipPrune,
                 attempt, shouldDelete, todo>>

\* "npm cache clean <cacheFolder>" when a cache folder is configured; then
\* needToInstall = true and skipPrune = true.
CleanCache(exit) ==
  /\ pc = "c_cache"
  /\ IF HasCacheFolder
       THEN /\ events' = Append(events, Ev("cacheClean", exit))
            /\ ExecuteCommand(exit, "n_marker")
       ELSE /\ UNCHANGED events
            /\ pc' = "n_marker"
  /\ needToInstall' = (pc' = "n_marker")
  /\ skipPrune' = (pc' = "n_marker")
  /\ UNCHANGED <<fsVars, cfgVars, dataVars, argVars, histVars, run, attempt, shouldDelete, todo>>

\* Mutant: skipPrune is not set when the marker is missing.
SkipPruneForgotten == FALSE

\* skipPrune once the marker was found missing (the folder cannot be trusted)
SkipPruneWithoutMarker == TRUE

\* Mutant: without the marker the node_modules folder is left where it is.
InvalidateMarkerWithoutRecycle ==
  /\ run = "install" /\ pc = "n_marker"
  /\ IF ~flagExists
       THEN /\ skipPrune' = (skipPrune \/ SkipPruneWithoutMarker)
            /\ UNCHANGED <<nmState, nmOf, nmRush, nmTime, recycler, events, nmTouched,
                           flagExists, flagTime>>
       ELSE /\ UnlinkMarker
            /\ events' = Append(events, Ev("unlinkMarker", 0))
            /\ UNCHANGED <<nmState, nmOf, nmRush, nmTime, recycler, nmTouched, skipPrune>>
  /\ pc' = IF skipPrune' THEN "n_install" ELSE "n_prune"
  /\ attempt' = 1
  /\ UNCHANGED <<pkgTime, tm, tmTime, sw, tool, toolLink, now, cfgVars, dataVars, argVars, run,
                 needToInstall, shouldDelete, todo,
                 runs, lastKilledDirty, afterKilledDirty, atStart,
                 installedLast>>

\* The first step of "if (needToInstall)": without the marker the node_modules
\* folder, if any, is recycled and pruning is skipped; with it, the marker is
\* unlinked.
InvalidateMarker ==
  /\ run = "install" /\ pc = "n_marker"
  /\ IF ~flagExists
       THEN /\ IF nmState # "absent"
                 THEN /\ RecycleNodeModules
                      /\ events' = Append(events, Ev("recycleNodeModules", 0))
                      /\ nmTouched' = TRUE
                 ELSE UNCHANGED <<nmState, nmOf, nmRush, nmTime, recycler, events, nmTouched>>
            /\ skipPrune' = (skipPrune \/ SkipPruneWithoutMarker)
            /\ UNCHANGED <<flagExists, flagTime>>
       ELSE /\ UnlinkMarker
            /\ events' = Append(events, Ev("unlinkMarker", 0))
            /\ UNCHANGED <<nmState, nmOf, nmRush, nmTime, recycler, nmTouched, skipPrune>>
  /\ pc' = IF skipPrune' THEN "n_install" ELSE "n_prune"
  /\ attempt' = 1
  /\ UNCHANGED <<pkgTime, tm, tmTime, sw, tool, toolLink, now, cfgVars, dataVars, argVars, run,
                 needToInstall, shouldDelete, todo,
                 runs, lastKilledDirty, afterKilledDirty, atStart,
                 installedLast>>

\* "npm prune" with retries; after it the glob of node_modules/rush-*
NpmPrune(exit) ==
  /\ run = "install" /\ pc = "n_prune"
  /\ NpmPruneEffect
  /\ nmTouched' = (nmTouched \/ nmState # "absent")
  /\ events' = Logged(Ev("prune", exit))
  /\ ExecuteCommandWithRetry(exit, MAX_INSTALL_ATTEMPTS, "n_strip")
  /\ todo' = IF exit = 0 THEN nmRush ELSE todo
  /\ UNCHANGED <<flagExists, flagTime, pkgTime, tm, tmTime, sw, tool, toolLink, recycler,
                 cfgVars, dataVars, argVars, run, needToInstall, skipPrune, shouldDelete,
                 runs, lastKilledDirty, afterKilledDirty, atStart,
                 installedLast>>

\* The loop that deletes node_modules/rush-*, one folder a step
DeleteTempProjects ==
  /\ run = "install" /\ pc = "n_strip"
  /\ IF todo = {}
       THEN /\ pc' = "n_install" /\ attempt' = 1
            /\ UNCHANGED <<nmState, nmOf, nmRush, nmTime, now, todo, events, nmTouched>>
       ELSE LET d == CHOOSE x \in todo : TRUE IN
            /\ nmRush' = nmRush \ {d}
            /\ nmState' = "indeterminate" /\ nmOf' = NoTemp
            /\ nmTime' = Touch(nmTime) /\ now' = Touch(nmTime)
            /\ todo' = todo \ {d}
            /\ events' = Append(events, Ev("deleteTempProject", 0))
            /\ nmTouched' = TRUE
            /\ UNCHANGED <<pc, attempt>>
  /\ UNCHANGED <<flagExists, flagTime, pkgTime, tm, tmTime, sw, tool, toolLink, recycler,
                 cfgVars, dataVars, argVars, run, needToInstall, skipPrune, shouldDelete,
                 runs, lastKilledDirty, afterKilledDirty, atStart,
                 installedLast>>

\* Mutant: the failure of the last attempt is swallowed.
NpmInstallSwallow(exit) ==
  /\ run = "install" /\ pc = "n_install"
  /\ NpmInstallEffect(exit)
  /\ nmTouched' = TRUE
  /\ events' = Append(events, Ev("install", exit))
  /\ IF exit # 0 /\ attempt >= MAX_INSTALL_ATTEMPTS
       THEN pc' = "n_flag" /\ attempt' = attempt
       ELSE ExecuteCommandWithRetry(exit, MAX_INSTALL_ATTEMPTS, "n_flag")
  /\ UNCHANGED <<flagExists, flagTime, pkgTime, tm, tmTime, sw, tool, toolLink, recycler,
                 cfgVars, dataVars, argVars, run, needToInstall, skipPrune, shouldDelete, todo,
                 runs, lastKilledDirty, afterKilledDirty, atStart,
                 installedLast>>

\* Mutant: the marker file is created before "npm install" runs, not after.
NpmInstallMarkerFirst(exit) ==
  /\ run = "install" /\ pc = "n_install"
  /\ flagExists' = TRUE /\ flagTime' = now + 1
  /\ nmState' = IF exit = 0 THEN "complete" ELSE "indeterminate"
  /\ nmOf' = IF exit = 0 THEN tm ELSE NoTemp
  /\ nmRush' = IF exit = 0 THEN {n \in TempNames : tm[n] # 0} ELSE nmRush
  /\ nmTime' = now + 2 /\ now' = now + 2
  /\ nmTouched' = TRUE
  /\ events' = Append(events, Ev("install", exit))
  /\ ExecuteCommandWithRetry(exit, MAX_INSTALL_ATTEMPTS, "done")
  /\ UNCHANGED <<pkgTime, tm, tmTime, sw, tool, toolLink, recycler,
                 cfgVars, dataVars, argVars, run, needToInstall, skipPrune, shouldDelete, todo,
                 runs, lastKilledDirty, afterKilledDirty, atStart,
                 installedLast>>

\* "npm install" in the common folder, with retries
NpmInstall(exit) ==
  /\ run = "install" /\ pc = "n_install"
  /\ NpmInstallEffect(exit)
  /\ nmTouched' = TRUE
  /\ events' = Append(events, Ev("install", exit))
  /\ ExecuteCommandWithRetry(exit, MAX_INSTALL_ATTEMPTS, "n_flag")
  /\ UNCHANGED <<flagExists, flagTime, pkgTime, tm, tmTime, sw, tool, toolLink, recycler,
                 cfgVars, dataVars, argVars, run, needToInstall, skipPrune, shouldDelete, todo,
                 runs, lastKilledDirty, afterKilledDirty, atStart,
                 installedLast>>

\* Mutant: the run ends without creating the marker file.
CreateMarkerMissing ==
  /\ run = "install" /\ pc = "n_flag"
  /\ pc' = "done"
  /\ UNCHANGED <<fsVars, cfgVars, dataVars, argVars, histVars, run, needToInstall, skipPrune,
                 attempt, shouldDelete, todo, events>>

\* Mutant: the marker file is written with a time stamp of long ago.
CreateMarkerBackdated ==
  /\ run = "install" /\ pc = "n_flag"
  /\ flagExists' = TRUE /\ flagTime' = 0 /\ now' = now
  /\ events' = Append(events, Ev("createMarker", 0))
  /\ pc' = "done"
  /\ UNCHANGED <<nmState, nmOf, nmRush, nmTime, pkgTime, tm, tmTime, sw, tool, toolLink,
                 recycler, cfgVars, dataVars, argVars, histVars, run, needToInstall, skipPrune,
                 attempt, shouldDelete, todo>>

\* fsx.createFileSync(commonNodeModulesMarkerFilename)
CreateMarker ==
  /\ run = "install" /\ pc = "n_flag"
  /\ flagExists' = TRUE /\ flagTime' = Touch(flagTime) /\ now' = Touch(flagTime)
  /\ events' = Append(events, Ev("createMarker", 0))
  /\ pc' = "done"
  /\ UNCHANGED <<nmState, nmOf, nmRush, nmTime, pkgTime, tm, tmTime, sw, tool, toolLink,
                 recycler, cfgVars, dataVars, argVars, histVars, run, needToInstall, skipPrune,
                 attempt, shouldDelete, todo>>

\* ----------------------------------------------------------- rush generate

StartGenerate(l, f) ==
  /\ pc = "idle" /\ runs < MaxRuns
  /\ run' = "generate" /\ pc' = "g_deltm"
  /\ lazy' = l /\ force' = f
  /\ runs' = runs + 1 /\ nmTouched' = FALSE
  /\ afterKilledDirty' = FALSE /\ lastKilledDirty' = FALSE
  /\ atStart' = Snapshot
  /\ UNCHANGED <<fsVars, cfgVars, dataVars, cleanInstall, cleanInstallFull, needToInstall, skipPrune,
                 attempt, shouldDelete, todo, events, installedLast>>

\* 1. _deleteCommonTempModules; the projects to write, in tempProjectName order
DeleteCommonTempModules ==
  /\ run = "generate" /\ pc = "g_deltm"
  /\ tm' = NoTemp /\ tmTime' = 0
  /\ events' = Append(events, Ev("deleteTempModules", 0))
  /\ todo' = TempNames
  /\ pc' = "g_mktm"
  /\ UNCHANGED <<flagExists, flagTime, nmState, nmOf, nmRush, nmTime, pkgTime, sw, tool,
                 toolLink, recycler, now, cfgVars, dataVars, argVars, histVars, run, needToInstall,
                 skipPrune, attempt, shouldDelete>>

\* 2. _createCommonTempModulesAndPackageJson: one temp_modules/<name>/package.json
\* a step, then common/package.json
CreateCommonTempModulesAndPackageJson ==
  /\ run = "generate" /\ pc = "g_mktm"
  /\ IF todo # {}
       THEN LET d == CHOOSE x \in todo : TRUE IN
            /\ tm' = [tm EXCEPT ![d] = cfg]
            /\ tmTime' = Touch(tmTime) /\ now' = Touch(tmTime)
            /\ todo' = todo \ {d}
            /\ events' = Append(events, Ev("writeTempModule", 0))
            /\ UNCHANGED <<pkgTime, pc>>
       ELSE /\ pkgTime' = Touch(pkgTime) /\ now' = Touch(pkgTime)
            /\ events' = Append(events, Ev("writePackageJson", 0))
            /\ pc' = "g_should"
            /\ UNCHANGED <<tm, tmTime, todo>>
  /\ UNCHANGED <<flagExists, flagTime, nmState, nmOf, nmRush, nmTime, sw, tool, toolLink,
                 recycler, cfgVars, dataVars, argVars, histVars, run, needToInstall, skipPrune,
                 attempt, shouldDelete>>

\* Mutant: only --lazy keeps the folder.
IsLazyDeleteOnlyFlag(should) == lazy

\* The isLazy argument of _deleteCommonNodeModules
IsLazyDelete(should) == lazy \/ ~should

\* 3. _shouldDeleteNodeModules: true without a shrinkwrap file, else whether some
\* dependency of a temp module is not found in it (found: the outcome of the walk);
\* then the glob of node_modules/rush-* for the lazy deletion
ShouldDeleteNodeModules(found) ==
  /\ run = "generate" /\ pc = "g_should"
  /\ shouldDelete' = IF ~sw THEN TRUE ELSE ~found
  /\ todo' = IF IsLazyDelete(shouldDelete') THEN nmRush ELSE {}
  /\ pc' = "g_delnm"
  /\ UNCHANGED <<fsVars, cfgVars, dataVars, argVars, histVars, run, needToInstall, skipPrune,
                 attempt, events>>

\* 4. _deleteCommonNodeModules: lazily, node_modules/rush-* are recycled one by
\* one; else the whole folder is, when it exists
DeleteCommonNodeModules ==
  /\ run = "generate" /\ pc = "g_delnm"
  /\ IF IsLazyDelete(shouldDelete) /\ todo # {}
       THEN LET d == CHOOSE x \in todo : TRUE IN
            /\ nmRush' = nmRush \ {d}
            /\ nmState' = "indeterminate" /\ nmOf' = NoTemp
            /\ nmTime' = Touch(nmTime) /\ now' = Touch(nmTime)
            /\ recycler' = TRUE
            /\ todo' = todo \ {d}
            /\ events' = Append(events, Ev("recycleTempProject", 0))
            /\ nmTouched' = TRUE
            /\ UNCHANGED pc
     ELSE IF ~IsLazyDelete(shouldDelete) /\ nmState # "absent"
       THEN /\ RecycleNodeModules
            /\ events' = Append(events, Ev("recycleNodeModules", 0))
            /\ nmTouched' = TRUE
            /\ pc' = "g_delsw"
            /\ UNCHANGED <<now, todo>>
     ELSE /\ pc' = "g_delsw"
          /\ UNCHANGED <<nmState, nmOf, nmRush, nmTime, now, recycler, todo, events,
                         nmTouched>>
  /\ UNCHANGED <<flagExists, flagTime, pkgTime, tm, tmTime, sw, tool, toolLink,
                 cfgVars, dataVars, argVars, run, needToInstall, skipPrune, attempt, shouldDelete,
                 runs, lastKilledDirty, afterKilledDirty, atStart,
                 installedLast>>

\* 5. _deleteShrinkwrapFile, if (shouldDeleteNodeModules || lazy)
DeleteShrinkwrapFile ==
  /\ run = "generate" /\ pc = "g_delsw"
  /\ IF (shouldDelete \/ lazy) /\ sw
       THEN sw' = FALSE /\ events' = Append(events, Ev("deleteShrinkwrap", 0))
       ELSE UNCHANGED <<sw, events>>
  /\ pc' = "t_check"
  /\ UNCHANGED <<flagExists, flagTime, nmState, nmOf, nmRush, nmTime, pkgTime, tm, tmTime,
                 tool, toolLink, recycler, now, cfgVars, dataVars, argVars, histVars, run,
                 needToInstall, skipPrune, attempt, shouldDelete, todo>>

\* Mutant: "rush generate" writes the marker file after its "npm install".
RunNpmInstallWritingMarker(exit) ==
  /\ run = "generate" /\ pc = "g_install"
  /\ NpmInstallEffect(exit)
  /\ flagExists' = (flagExists \/ exit = 0)
  /\ flagTime' = IF exit = 0 THEN now + 1 ELSE flagTime
  /\ nmTouched' = TRUE
  /\ events' = Append(events, Ev("install", exit))
  /\ ExecuteCommand(exit, "g_sw")
  /\ UNCHANGED <<pkgTime, tm, tmTime, sw, tool, toolLink, recycler,
                 cfgVars, dataVars, argVars, run, needToInstall, skipPrune, attempt, shouldDelete, todo,
                 runs, lastKilledDirty, afterKilledDirty, atStart,
                 installedLast>>

\* 7. _runNpmInstall: one "npm install" in the common folder
RunNpmInstall(exit) ==
  /\ run = "generate" /\ pc = "g_install"
  /\ NpmInstallEffect(exit)
  /\ nmTouched' = TRUE
  /\ events' = Append(events, Ev("install", exit))
  /\ ExecuteCommand(exit, "g_sw")
  /\ UNCHANGED <<flagExists, flagTime, pkgTime, tm, tmTime, sw, tool, toolLink, recycler,
                 cfgVars, dataVars, argVars, run, needToInstall, skipPrune, attempt, shouldDelete, todo,
                 runs, lastKilledDirty, afterKilledDirty, atStart,
                 installedLast>>

\* Mutant: "npm shrinkwrap" is run in lazy mode too.
RunNpmShrinkWrapEvenIfLazy(exit) ==
  /\ run = "generate" /\ pc = "g_sw"
  /\ IF shouldDelete
       THEN /\ events' = Append(events, Ev("shrinkwrap", exit))
            /\ sw' = (sw \/ exit = 0)
            /\ ExecuteCommand(exit, "done")
       ELSE /\ pc' = "done"
            /\ UNCHANGED <<sw, events>>
  /\ UNCHANGED <<flagExists, flagTime, nmState, nmOf, nmRush, nmTime, pkgTime, tm, tmTime,
                 tool, toolLink, recycler, now, cfgVars, dataVars, argVars, histVars, run,
                 needToInstall, skipPrune, attempt, shouldDelete, todo>>

\* _runNpmShrinkWrap, if (shouldDeleteNodeModules): skipped when lazy
RunNpmShrinkWrap(exit) ==
  /\ run = "generate" /\ pc = "g_sw"
  /\ IF shouldDelete /\ ~lazy
       THEN /\ events' = Append(events, Ev("shrinkwrap", exit))
            /\ sw' = (sw \/ exit = 0)
            /\ ExecuteCommand(exit, "done")
       ELSE /\ pc' = "done"
            /\ UNCHANGED <<sw, events>>
  /\ UNCHANGED <<flagExists, flagTime, nmState, nmOf, nmRush, nmTime, pkgTime, tm, tmTime,
                 tool, toolLink, recycler, now, cfgVars, dataVars, argVars, histVars, run,
                 needToInstall, skipPrune, attempt, shouldDelete, todo>>

\* ------------------------------------------------------------ the environment

Idle ==
  /\ run' = "none" /\ pc' = "idle"
  /\ cleanInstall' = FALSE /\ cleanInstallFull' = FALSE /\ lazy' = FALSE /\ force' = FALSE
  /\ needToInstall' = FALSE /\ skipPrune' = FALSE /\ attempt' = 0 /\ shouldDelete' = FALSE
  /\ todo' = {} /\ events' = <<>>
  /\ nmTouched' = FALSE /\ afterKilledDirty' = FALSE /\ atStart' = NoSnapshot

\* an install that has returned after it wrote the marker file
EndedByCreatingMarker ==
  run = "install" /\ pc = "done" /\ events # <<>> /\ events[Len(events)].op = "createMarker"

\* The command returns (or has thrown) and the process ends.
Exit ==
  /\ pc \in {"done", "failed"}
  /\ Idle
  /\ lastKilledDirty' = FALSE
  /\ installedLast' = EndedByCreatingMarker
  /\ UNCHANGED <<fsVars, cfgVars, dataVars, runs>>

\* The process is killed between two steps, or (mid) inside the subprocess it
\* is waiting for, which leaves what that subprocess was writing half done.
Kill(mid) ==
  /\ run # "none" /\ pc \notin {"done", "failed"}
  /\ IF mid /\ pc \in {"n_install", "g_install"}
       THEN NpmInstallEffect(1) /\ UNCHANGED tool
     ELSE IF mid /\ pc = "n_prune"
       THEN NpmPruneEffect /\ UNCHANGED tool
     ELSE IF mid /\ pc = "t_npm"
       THEN tool' = "indeterminate" /\ UNCHANGED <<nmState, nmOf, nmRush, nmTime, now>>
     ELSE UNCHANGED <<nmState, nmOf, nmRush, nmTime, now, tool>>
  /\ lastKilledDirty' = (run = "install" /\ (nmTouched \/ nmState' # nmState
                                               \/ nmTime' # nmTime))
  /\ installedLast' = FALSE
  /\ Idle
  /\ UNCHANGED <<flagExists, flagTime, pkgTime, tm, tmTime, sw, toolLink, recycler,
                 cfgVars, dataVars, runs>>

\* A developer changes a project's package.json.
EditProject ==
  /\ pc = "idle" /\ cfg <= MaxEdits
  /\ cfg' = cfg + 1
  /\ UNCHANGED <<fsVars, cacheFolder, argVars, runVars, histVars, dataVars>>

\* The recycler's background process deletes the folders moved into it.
RecycleWorker ==
  /\ recycler
  /\ recycler' = FALSE
  /\ UNCHANGED <<flagExists, flagTime, nmState, nmOf, nmRush, nmTime, pkgTime, tm, tmTime,
                 sw, tool, toolLink, now, cfgVars, dataVars, argVars, runVars, histVars>>

Next ==
  \/ \E c, f \in BOOLEAN : StartInstall(c, f)
  \/ CheckThatTempModulesMatch
  \/ ToolCheck \/ ToolDelete \/ ToolCreate
  \/ \E exit \in ExitCodes : ToolNpmInstall(exit)
  \/ ToolWriteFlag \/ ToolLink
  \/ InstallDecide
  \/ CleanUnlinkMarker \/ CleanDeleteNodeModules \/ CleanCreateNodeModules
  \/ \E exit \in ExitCodes : CleanCache(exit)
  \/ InvalidateMarker
  \/ \E exit \in ExitCodes : NpmPrune(exit)
  \/ DeleteTempProjects
  \/ \E exit \in ExitCodes : NpmInstall(exit)
  \/ CreateMarker
  \/ \E l, f \in BOOLEAN : StartGenerate(l, f)
  \/ DeleteCommonTempModules
  \/ CreateCommonTempModulesAndPackageJson
  \/ \E found \in BOOLEAN : ShouldDeleteNodeModules(found)
  \/ DeleteCommonNodeModules
  \/ DeleteShrinkwrapFile
  \/ \E exit \in ExitCodes : RunNpmInstall(exit)
  \/ \E exit \in ExitCodes : RunNpmShrinkWrap(exit)
  \/ Exit
  \/ \E mid \in BOOLEAN : Kill(mid)
  \/ EditProject
  \/ RecycleWorker

Spec == Init /\ [][Next]_vars

\* ------------------------------------------------ the consistency check alone

\* What one project's package.json may ask for.
DepChoices(p) ==
  {NoDependencies,
   [n \in {"d"} |-> RangeOfRevision(1)],
   [n \in {"d"} \cup (ProjectNames \ {p}) |-> RangeOfRevision(1)]}

\* No command has run and none is running.
NothingInstalled ==
  /\ FreshClone
  /\ pkgTime = 0 /\ tm = [n \in TempNames |-> 1] /\ tmTime = 0
  /\ recycler = FALSE /\ cfg = 1 /\ cacheFolder = FALSE
  /\ run = "none" /\ pc = "idle"
  /\ cleanInstall = FALSE /\ cleanInstallFull = FALSE /\ lazy = FALSE /\ force = FALSE
  /\ needToInstall = FALSE /\ skipPrune = FALSE /\ attempt = 0 /\ shouldDelete = FALSE
  /\ todo = {} /\ events = <<>>
  /\ runs = 0 /\ nmTouched = FALSE /\ lastKilledDirty = FALSE /\ afterKilledDirty = FALSE
  /\ installedLast = FALSE
  /\ atStart = NoSnapshot

\* rush.json and the package.json files as the developers wrote them, and
\* common/temp_modules as "rush generate" made it from them.
CheckInit ==
  /\ NothingInstalled
  /\ projects \in {<<"a", "b">>, <<"b", "a">>, <<"a">>}
  /\ projectDeps \in {d \in [ProjectNames -> UNION {DepChoices(p) : p \in ProjectNames}] :
                        \A p \in ProjectNames : d[p] \in DepChoices(p)}
  /\ tempModulesFolder = GeneratedFolder(projects, projectDeps)
  /\ checkResult = NotChecked /\ sincePass = NoEdit /\ fileEdits = 0
  /\ sw = FALSE
  /\ shrinkwrapFile = NoShrinkwrapFile /\ analyzed = NoShrinkwrapFile
  /\ generates = <<>> /\ manifestsChanged = FALSE
  /\ PackageJsonNotFollowed

\* An edit by hand: the last result is void, and the edit is remembered when it
\* is made to files that have just passed the check.
Edited(op, file) ==
  /\ fileEdits < MaxFileEdits
  /\ fileEdits' = fileEdits + 1
  /\ checkResult' = NotChecked
  /\ sincePass' = IF checkResult = CheckOk
                    THEN [state |-> "one", op |-> op, file |-> file]
                  ELSE IF sincePass.state = "none" THEN sincePass
                  ELSE [state |-> "many", op |-> "", file |-> ""]

\* The version of dependency "d" in one temp_modules file is changed.
MutateTempModule(f, r) ==
  /\ f \in DOMAIN tempModulesFolder
  /\ "d" \in DOMAIN tempModulesFolder[f].dependencies
  /\ tempModulesFolder[f].dependencies["d"] # r
  /\ tempModulesFolder' = [tempModulesFolder EXCEPT ![f].dependencies["d"] = r]
  /\ Edited("mutate", f)
  /\ UNCHANGED <<mainVars, genVars, pkgVars, projects, projectDeps>>

DeleteTempModule(f) ==
  /\ f \in DOMAIN tempModulesFolder
  /\ tempModulesFolder' = [g \in DOMAIN tempModulesFolder \ {f} |-> tempModulesFolder[g]]
  /\ Edited("delete", f)
  /\ UNCHANGED <<mainVars, genVars, pkgVars, projects, projectDeps>>

\* A temp_modules folder is copied under another name, package.json unchanged.
CopyTempModule(f, g) ==
  /\ f \in DOMAIN tempModulesFolder /\ g \in Folders \ DOMAIN tempModulesFolder
  /\ tempModulesFolder' = [h \in DOMAIN tempModulesFolder \cup {g} |->
                             IF h = g THEN tempModulesFolder[f] ELSE tempModulesFolder[h]]
  /\ Edited("copy", g)
  /\ UNCHANGED <<mainVars, genVars, pkgVars, projects, projectDeps>>

\* rush.json loses or gains a project.
RemoveProject(p) ==
  /\ p \in Elements(projects) /\ Len(projects) > 1
  /\ projects' = SelectSeq(projects, LAMBDA q : q # p)
  /\ Edited("removeProject", p)
  /\ UNCHANGED <<mainVars, genVars, pkgVars, projectDeps, tempModulesFolder>>

AddProject(p) ==
  /\ p \in PackageNames \ Elements(projects)
  /\ projects' = Append(projects, p)
  /\ Edited("addProject", p)
  /\ UNCHANGED <<mainVars, genVars, pkgVars, projectDeps, tempModulesFolder>>

\* A project's package.json asks for another version of "d".
EditPackageJson(p, r) ==
  /\ p \in Elements(projects)
  /\ "d" \in DOMAIN projectDeps[p] /\ projectDeps[p]["d"] # r
  /\ projectDeps' = [projectDeps EXCEPT ![p]["d"] = r]
  /\ Edited("editPackageJson", p)
  /\ UNCHANGED <<mainVars, genVars, pkgVars, projects, tempModulesFolder>>

\* "rush install" up to and including _checkThatTempModulesMatch
RunCheckThatTempModulesMatch ==
  /\ checkResult = NotChecked
  /\ checkResult' = CheckTempModules(tempModulesFolder, projects, projectDeps)
  /\ UNCHANGED <<mainVars, genVars, pkgVars, projects, projectDeps, tempModulesFolder, sincePass, fileEdits>>

EditRanges == {RangeOfRevision(1), RangeOfRevision(2)}

CheckNext ==
  \/ \E f \in Folders, r \in EditRanges : MutateTempModule(f, r)
  \/ \E f \in Folders : DeleteTempModule(f)
  \/ \E f, g \in Folders : CopyTempModule(f, g)
  \/ \E p \in ProjectNames : RemoveProject(p)
  \/ \E p \in ProjectNames : AddProject(p)
  \/ \E p \in ProjectNames, r \in EditRanges : EditPackageJson(p, r)
  \/ RunCheckThatTempModulesMatch

CheckSpec == CheckInit /\ [][CheckNext]_vars

\* --------------------------------- "rush generate" and the shrinkwrap file

\* What one project's package.json may ask for at the start.
GenDepChoices(p) ==
  {NoDependencies,
   [n \in {"d"} |-> RangeOfRevision(2)],
   [n \in {"d"} \cup (ProjectNames \ {p}) |-> RangeOfRevision(2)]}

\* The entries a shrinkwrap file found in the repository may have under a temp
\* project, and the files themselves.
LockedVersions == {<<1, 1, 0>>, <<1, 2, 5>>}
NestedChoices ==
  {NoEntries} \cup {[n \in {"d"} |-> ShrinkwrapDependency(v, NoEntries)] : v \in LockedVersions}
RootChoices == NestedChoices
ShrinkwrapChoices ==
  {NoShrinkwrapFile} \cup
  {ShrinkwrapFile([k \in DOMAIN r \cup {TempProjectName[p] : p \in ps} |->
                     IF k \in DOMAIN r THEN r[k]
                     ELSE ShrinkwrapDependency(<<0, 0, 0>>, n[k])]) :
     r \in RootChoices, ps \in SUBSET ProjectNames,
     n \in {m \in [{TempProjectName[p] : p \in ProjectNames} -> NestedChoices] :
             m["rush-b"] = NoEntries}}

\* The parts of the state a "rush generate" in this specification leaves alone:
\* node_modules, the marker and the NPM tool are followed in Spec.
installVars == <<flagExists, flagTime, nmState, nmOf, nmRush, nmTime, pkgTime, tm, tmTime,
                 tool, toolLink, recycler, now, cfgVars, argVars, runVars,
                 nmTouched, lastKilledDirty, afterKilledDirty, atStart,
                 installedLast>>

GenInit ==
  /\ NothingInstalled
  /\ projects \in {<<"a", "b">>, <<"a">>}
  /\ projectDeps \in {d \in [ProjectNames -> UNION {GenDepChoices(p) : p \in ProjectNames}] :
                        \A p \in ProjectNames : d[p] \in GenDepChoices(p)}
  /\ tempModulesFolder = GeneratedFolder(projects, projectDeps)
  /\ checkResult = NotChecked /\ sincePass = NoEdit /\ fileEdits = 0
  /\ shrinkwrapFile \in ShrinkwrapChoices /\ sw = shrinkwrapFile.exists
  /\ analyzed = NoShrinkwrapFile /\ generates = <<>> /\ manifestsChanged = FALSE
  /\ pinnedVersions = <<>> /\ commonPackageJson = NoPackageJson /\ written = NotWritten

GenerateOutcomes == {"ok", "toolFails", "installFails", "shrinkwrapFails"}

\* The last two entries of a log.
LastTwo(log) == IF Len(log) <= 2 THEN log ELSE SubSeq(log, Len(log) - 1, Len(log))

\* Mutant: "npm shrinkwrap" is never run.
OnExecuteGenerateWithoutShrinkwrap(l, f, outcome) ==
  LET tempModules == TempModuleGenerator(projects, projectDeps)
      shouldDeleteNodeModules == ShouldDelete(shrinkwrapFile, tempModules)
      afterDelete == IF shouldDeleteNodeModules \/ l THEN NoShrinkwrapFile ELSE shrinkwrapFile
      shrinkwraps == shouldDeleteNodeModules /\ ~l
  IN  /\ runs < MaxRuns
      /\ outcome = "shrinkwrapFails" => shrinkwraps
      /\ runs' = runs + 1
      /\ tempModulesFolder' = GeneratedFolder(projects, projectDeps)
      /\ shrinkwrapFile' = afterDelete
      /\ sw' = shrinkwrapFile'.exists
      /\ generates' = LastTwo(Append(generates,
                         [lazy |-> l, ok |-> outcome = "ok",
                          shouldDelete |-> shouldDeleteNodeModules,
                          unchanged |-> generates # <<>> /\ ~manifestsChanged]))
      /\ analyzed' = shrinkwrapFile
      /\ manifestsChanged' = FALSE
      /\ commonPackageJson' = CommonPackageJson(projects, pinnedVersions)
      /\ written' = WrittenFrom("ok", projects, pinnedVersions)
      /\ UNCHANGED <<installVars, projects, projectDeps, checkResult, sincePass, fileEdits,
                     pinnedVersions>>

\* onExecute of "rush generate", from start to finish; outcome says which of the
\* commands it runs fails, if any.  --force is accepted and never read.
OnExecuteGenerate(l, f, outcome) ==
  LET tempModules == TempModuleGenerator(projects, projectDeps)
      shouldDeleteNodeModules == ShouldDelete(shrinkwrapFile, tempModules)
      afterDelete == IF shouldDeleteNodeModules \/ l THEN NoShrinkwrapFile ELSE shrinkwrapFile
      shrinkwraps == shouldDeleteNodeModules /\ ~l
  IN  /\ runs < MaxRuns
      /\ outcome = "shrinkwrapFails" => shrinkwraps
      /\ runs' = runs + 1
      /\ tempModulesFolder' = GeneratedFolder(projects, projectDeps)
      /\ shrinkwrapFile' = IF outcome = "ok" /\ shrinkwraps
                             THEN NpmShrinkwrap(tempModules) ELSE afterDelete
      /\ sw' = shrinkwrapFile'.exists
      /\ generates' = LastTwo(Append(generates,
                         [lazy |-> l, ok |-> outcome = "ok",
                          shouldDelete |-> shouldDeleteNodeModules,
                          unchanged |-> generates # <<>> /\ ~manifestsChanged]))
      /\ analyzed' = shrinkwrapFile
      /\ manifestsChanged' = FALSE
      /\ commonPackageJson' = CommonPackageJson(projects, pinnedVersions)
      /\ written' = WrittenFrom("ok", projects, pinnedVersions)
      /\ UNCHANGED <<installVars, projects, projectDeps, checkResult, sincePass, fileEdits,
                     pinnedVersions>>

\* package.json edits followed between "rush generate" runs.
MaxManifestEdits == 1

GenRanges == {RangeOfRevision(2), Caret(<<2, 0, 0>>)}

\* A package.json gains a dependency, or asks for another range of one.
AddDependency(p, n, r) ==
  /\ fileEdits < MaxManifestEdits
  /\ n # p
  /\ IF n \in DOMAIN projectDeps[p] THEN projectDeps[p][n] # r ELSE TRUE
  /\ projectDeps' = [projectDeps EXCEPT
                       ![p] = [m \in DOMAIN projectDeps[p] \cup {n} |->
                                 IF m = n THEN r ELSE projectDeps[p][m]]]
  /\ fileEdits' = fileEdits + 1
  /\ manifestsChanged' = TRUE
  /\ UNCHANGED <<mainVars, pkgVars, projects, tempModulesFolder, checkResult, sincePass,
                 shrinkwrapFile, analyzed, generates>>

\* A package.json loses a dependency.
RemoveDependency(p, n) ==
  /\ fileEdits < MaxManifestEdits
  /\ n \in DOMAIN projectDeps[p]
  /\ projectDeps' = [projectDeps EXCEPT
                       ![p] = [m \in DOMAIN projectDeps[p] \ {n} |-> projectDeps[p][m]]]
  /\ fileEdits' = fileEdits + 1
  /\ manifestsChanged' = TRUE
  /\ UNCHANGED <<mainVars, pkgVars, projects, tempModulesFolder, checkResult, sincePass,
                 shrinkwrapFile, analyzed, generates>>

GenNext ==
  \/ \E l, f \in BOOLEAN, outcome \in GenerateOutcomes : OnExecuteGenerate(l, f, outcome)
  \/ \E p \in ProjectNames, r \in GenRanges : AddDependency(p, "d", r)
  \/ \E p \in ProjectNames, n \in {"d"} \cup ProjectNames : RemoveDependency(p, n)

GenSpec == GenInit /\ [][GenNext]_vars

\* ------------------------ "rush generate": temp_modules and package.json

\* rush.json: up to three projects, in any order.
ProjectLists ==
  {s \in UNION {[1..n -> PackageNames] : n \in 1..3} :
     \A i, j \in 1..Len(s) : i # j => s[i] # s[j]}

\* The pinned versions of rush.json; no pinned package is named rush-*, the
\* names by which temp projects are recognized.
PinnedChoices ==
  {<<>>,
   <<[name |-> "d", value |-> "1.2.5"]>>,
   <<[name |-> "d", value |-> "1.2.5"], [name |-> "e", value |-> "2.0.0"]>>,
   <<[name |-> "e", value |-> "2.0.0"], [name |-> "d", value |-> "1.2.5"]>>}

PkgInit ==
  /\ NothingInstalled /\ sw = FALSE
  /\ projects \in ProjectLists
  /\ projectDeps = [p \in PackageNames |-> [n \in {"d"} |-> RangeOfRevision(1)]]
  /\ tempModulesFolder = <<>>
  /\ checkResult = NotChecked /\ sincePass = NoEdit /\ fileEdits = 0
  /\ shrinkwrapFile = NoShrinkwrapFile /\ analyzed = NoShrinkwrapFile
  /\ generates = <<>> /\ manifestsChanged = FALSE
  /\ pinnedVersions \in PinnedChoices
  /\ commonPackageJson = NoPackageJson /\ written = NotWritten

\* Mutant: neither the generator nor mkdirSync stops on a folder name used twice.
CreateTempModulesAndPackageJsonUnchecked ==
  LET sorted == SortedRushProjects(projects)
  IN  /\ tempModulesFolder' = SavedTempModules(sorted, projectDeps)
      /\ commonPackageJson' = CommonPackageJson(projects, pinnedVersions)
      /\ written' = WrittenFrom("ok", projects, pinnedVersions)
      /\ checkResult' = NotChecked
      /\ UNCHANGED <<mainVars, genVars, projects, projectDeps, sincePass, fileEdits,
                     pinnedVersions>>

\* Steps 1 and 2 of onExecute: temp_modules is deleted and made anew; the
\* generator runs; a folder and a package.json are written per project, in
\* sorted order; common/package.json is written last.
CreateTempModulesAndPackageJson ==
  LET sorted == SortedRushProjects(projects)
      clash == MkdirSyncFailsAt(sorted)
  IN  /\ IF TempModuleGeneratorFails(projects)
           THEN /\ tempModulesFolder' = <<>>
                /\ written' = WrittenFrom("ConfigError", projects, pinnedVersions)
                /\ UNCHANGED commonPackageJson
         ELSE IF clash # 0
           THEN /\ tempModulesFolder' = SavedTempModules(SubSeq(sorted, 1, clash - 1),
                                                         projectDeps)
                /\ written' = WrittenFrom("EEXIST", projects, pinnedVersions)
                /\ UNCHANGED commonPackageJson
         ELSE /\ tempModulesFolder' = SavedTempModules(sorted, projectDeps)
              /\ commonPackageJson' = CommonPackageJson(projects, pinnedVersions)
              /\ written' = WrittenFrom("ok", projects, pinnedVersions)
      /\ checkResult' = NotChecked
      /\ UNCHANGED <<mainVars, genVars, projects, projectDeps, sincePass, fileEdits,
                     pinnedVersions>>

\* Two neighbouring projects change places in rush.json.
SwapProjects(i) ==
  /\ i \in 1..(Len(projects) - 1)
  /\ projects' = [projects EXCEPT ![i] = projects[i + 1], ![i + 1] = projects[i]]
  /\ Edited("swapProjects", projects[i])
  /\ UNCHANGED <<mainVars, genVars, pkgVars, projectDeps, tempModulesFolder>>

PkgNext ==
  \/ CreateTempModulesAndPackageJson
  \/ \E i \in 1..2 : SwapProjects(i)
  \/ \E p \in PackageNames : RemoveProject(p)
  \/ \E p \in PackageNames : AddProject(p)

PkgSpec == PkgInit /\ [][PkgNext]_vars

\* ===================================================================== claims

Last == events[Len(events)]
Before(opA, okA, opB) ==
  \* an event opA whose exit code is in okA comes before the first event opB
  \E i \in 1..Len(events) :
    /\ events[i].op = opA /\ events[i].exit \in okA
    /\ \A j \in 1..i : events[j].op # opB
InstallRun == run = "install"
\* the run failed because the temp_modules check failed or a subprocess kept failing
FailedOutsideClaim ==
  \/ events = <<>> /\ \E n \in TempNames : tm[n] # cfg
  \/ events # <<>> /\ Last.exit # 0
Forced == cleanInstall \/ cleanInstallFull

\* C1: in an install run, every step that changes node_modules (deletes or
\* recycles it, deletes a node_modules/rush-* folder) or that runs "npm prune" or
\* "npm install" starts in a state where the marker file does not exist.
C1_MarkerAbsentBeforeDestructive ==
  [][(/\ InstallRun /\ run' = "install"
      /\ \/ <<nmState, nmOf, nmRush, nmTime>>' # <<nmState, nmOf, nmRush, nmTime>>
         \/ pc \in {"n_prune", "n_install"})
     => ~flagExists]_vars

C1_Witness ==
  InstallRun /\ atStart.flagExists /\ Did("prune") /\ Did("deleteTempProject")
    /\ Did("install")

\* C2: whenever the marker file exists, node_modules is the complete result of a
\* successful install of the temp_modules that are on disk.
C2_MarkerImpliesInstalled ==
  flagExists => (nmState = "complete" /\ nmOf = tm)

\* C3: when a command has created the marker file, it is an install run, the
\* creation was its last step, and the step before it was an "npm install" that
\* exited with code 0.
C3_MarkerCreatedLast ==
  (run # "none" /\ flagExists
     /\ <<flagExists, flagTime>> # <<atStart.flagExists, atStart.flagTime>>)
  => /\ InstallRun /\ pc = "done"
     /\ Len(events) >= 2
     /\ Last = Ev("createMarker", 0)
     /\ events[Len(events) - 1] = Ev("install", 0)

C3_Witness == InstallRun /\ pc = "done" /\ Did("createMarker") /\ atStart.flagExists

InstallExits == [i \in {j \in 1..Len(events) : events[j].op = "install"} |-> events[i].exit]

\* C4: an install run whose "npm install" has exited nonzero MAX_INSTALL_ATTEMPTS
\* times has failed, and the marker file does not exist; "npm install" is never
\* invoked more often than that.
C4_AllAttemptsFail ==
  InstallRun =>
    /\ Cardinality(DOMAIN InstallExits) <= MAX_INSTALL_ATTEMPTS
    /\ (Cardinality({i \in DOMAIN InstallExits : InstallExits[i] # 0}) = MAX_INSTALL_ATTEMPTS)
         => (pc = "failed" /\ ~flagExists)

C4_Witness ==
  InstallRun /\ pc = "failed" /\ Count("install") = MAX_INSTALL_ATTEMPTS /\ atStart.flagExists

\* C5: in an install run no "npm install" follows one that exited 0; after the
\* one that exited 0 the run goes on to create the marker file and ends with the
\* marker present, and a run that ends after installing ends that way.
C5_RetryThenSuccess ==
  InstallRun =>
    /\ \A i \in DOMAIN InstallExits :
         InstallExits[i] = 0 =>
           /\ \A j \in DOMAIN InstallExits : j <= i
           /\ pc \in {"n_flag", "done"}
           /\ pc = "done" => flagExists
    /\ (pc = "done" /\ Did("install")) => (Last = Ev("createMarker", 0) /\ flagExists
                                             /\ Before("install", {0}, "createMarker"))

C5_Witness ==
  InstallRun /\ pc = "done" /\ flagExists /\ Count("install") = 3
    /\ \E i \in 1..Len(events) : events[i] = Ev("install", 1)

\* C6: an install run without --clean / --full-clean that starts with no marker
\* file and with a node_modules folder never runs "npm prune" and deletes no
\* rush-* folder of its own, recycles the folder before its first "npm install",
\* and has run "npm install" when it ends successfully.
C6_CrashRecovery ==
  (InstallRun /\ ~Forced /\ ~atStart.flagExists /\ atStart.nmState # "absent")
  => /\ ~Did("prune") /\ ~Did("deleteTempProject")
     /\ Did("install") => Before("recycleNodeModules", {0}, "install")
     /\ pc \in {"n_install", "n_flag", "done"} => Did("recycleNodeModules")
     /\ pc = "done" => Did("install")

C6_Witness ==
  InstallRun /\ ~Forced /\ ~atStart.flagExists /\ atStart.nmState = "indeterminate"
    /\ pc = "done" /\ Did("install") /\ Did("recycleNodeModules")

\* C7: the install run that follows an install run killed after it had modified
\* node_modules fails only because the temp_modules check failed or a subprocess
\* kept failing, and when it ends successfully it has run "npm install" and the
\* marker file exists.
C7_InterruptedInstallRecovered ==
  (InstallRun /\ afterKilledDirty)
  => /\ pc = "done" => (Did("install") /\ flagExists)
     /\ pc = "failed" => FailedOutsideClaim

C7_Witness == InstallRun /\ afterKilledDirty /\ pc = "done" /\ ~Forced

\* C8: an install run with --clean or --full-clean never runs "npm prune"; before
\* its first "npm install" it has unlinked the marker file if there was one and
\* deleted node_modules if there was one; and when it ends successfully it has run
\* "npm install", whatever the time stamps were.
C8_ForcedClean ==
  (InstallRun /\ Forced)
  => /\ ~Did("prune")
     /\ Did("install") =>
          /\ atStart.flagExists => Before("unlinkMarker", {0}, "install")
          /\ atStart.nmState # "absent" => Before("deleteNodeModules", {0}, "install")
     /\ pc = "done" => (Did("install") /\ Did("createMarker"))

C8_Witness ==
  /\ InstallRun /\ Forced /\ pc = "done"
  /\ atStart.flagExists /\ atStart.nmState = "complete"
  /\ atStart.flagTime >= atStart.nmTime /\ atStart.flagTime >= pkgTime
  /\ atStart.flagTime >= tmTime

\* C9: "npm cache clean" is run only by an install run with --clean or
\* --full-clean and a configured cache folder; such a run has run it before its
\* first "npm install"; without a configured cache folder no command runs it.
C9_CacheClean ==
  /\ Did("cacheClean") => (InstallRun /\ Forced /\ cacheFolder)
  /\ (InstallRun /\ Forced /\ cacheFolder /\ Did("install"))
       => Before("cacheClean", {0}, "install")

C9_Witness == Did("cacheClean") /\ Did("install") /\ pc = "done"

\* C10: an install run without --clean / --full-clean that starts with the marker
\* file present and package.json, node_modules or a temp_modules file newer than
\* it (or node_modules missing) unlinks the marker before its first "npm prune",
\* deletes rush-* folders only after "npm prune" has exited 0, starts "npm install"
\* only after that with no rush-* folder left, and has run "npm install" when it
\* ends successfully.
C10_StaleMarker ==
  (/\ InstallRun /\ ~Forced /\ atStart.flagExists
   /\ \/ atStart.flagTime < pkgTime
      \/ atStart.flagTime < tmTime
      \/ atStart.nmState = "absent"
      \/ atStart.flagTime < atStart.nmTime)
  => /\ Did("prune") => Before("unlinkMarker", {0}, "prune")
     /\ Did("deleteTempProject") => Before("prune", {0}, "deleteTempProject")
     /\ Did("install") => Before("prune", {0}, "install")
     /\ (pc = "n_install" \/ Did("install")) =>
          Cardinality({i \in 1..Len(events) : events[i].op = "deleteTempProject"})
            = Cardinality(atStart.nmRush)
     /\ (pc = "n_install" /\ ~Did("install")) => nmRush = {}
     /\ pc = "done" => Did("install")
     /\ pc = "failed" => FailedOutsideClaim

C10_Witness ==
  /\ InstallRun /\ ~Forced /\ atStart.flagExists /\ atStart.nmState = "complete"
  /\ atStart.flagTime < pkgTime
  /\ pc = "done" /\ Did("prune") /\ Count("deleteTempProject") = Cardinality(TempNames)

\* the temp_modules files whose manifest name is no project's tempProjectName
Orphans ==
  {f \in DOMAIN tempModulesFolder :
     \A p \in Elements(projects) : TempProjectName[p] # tempModulesFolder[f].name}
\* the files that carry the manifest name of project p's temp project
FilesOf(p) ==
  {f \in DOMAIN tempModulesFolder : tempModulesFolder[f].name = TempProjectName[p]}
\* the projects without a temp_modules file
Missing == {p \in Elements(projects) : FilesOf(p) = {}}
\* project p has temp_modules files and each is the manifest expected for p
UpToDate(p) ==
  /\ FilesOf(p) # {}
  /\ \A f \in FilesOf(p) :
       tempModulesFolder[f] = TempModuleOf(p, Elements(projects), projectDeps)
IndexOf(p) == CHOOSE i \in 1..Len(projects) : projects[i] = p

C13_DriftNamesProject ==
  (checkResult # NotChecked /\ sincePass.state = "one" /\ sincePass.op = "mutate")
  => \E p \in Elements(projects) :
       /\ TempProjectName[p] = tempModulesFolder[sincePass.file].name
       /\ checkResult = [kind |-> "drift", subject |-> p]

\* C14: the check passes only if the temp_modules files and the projects are in
\* one-to-one correspondence: every file carries the name of a project's temp
\* project, and every project has exactly one file.
C14_OneToOne ==
  checkResult = CheckOk =>
    /\ Orphans = {}
    /\ \A p \in Elements(projects) : Cardinality(FilesOf(p)) = 1

\* a project's temp module is missing, or is not the one its package.json gives
MissingOrOutdated == \E n \in TempNames : tm[n] # cfg

\* C15: while an install run is up against temp_modules that fail the check (a
\* temp module is missing or outdated), no step changes the marker file,
\* node_modules, the temp_modules files, package.json, the shrinkwrap file or the
\* NPM tool folder, no subprocess is invoked, and the run gets no further than
\* the check: it fails there.
C15_NoAutoRepair ==
  [][(InstallRun /\ MissingOrOutdated)
     => /\ UNCHANGED <<flagExists, flagTime, nmState, nmOf, nmRush, nmTime, pkgTime,
                       tm, tmTime, sw, tool, toolLink>>
        /\ events' = <<>>
        /\ pc' \in {"i_check", "failed", "idle"}
        /\ pc = "i_check" /\ run' = "install" /\ pc' # pc => pc' = "failed"]_vars

C15_Witness ==
  /\ InstallRun /\ pc = "failed" /\ MissingOrOutdated /\ events = <<>>
  /\ flagExists /\ nmState = "complete" /\ tool = "flagged"

\* ---- the shrinkwrap analysis (GenSpec)

LastGenerate == generates[Len(generates)]
PrevGenerate == generates[Len(generates) - 1]
\* The temp modules the last "rush generate" analysed are the current ones.
JustGenerated == generates # <<>> /\ ~manifestsChanged
CurrentTempModules == TempModuleGenerator(projects, projectDeps)

\* The entry chosen for a dependency of temp project t is missing or does not
\* satisfy the range: the one under t if there is one, else the one in the root.
Unsatisfied(file, t, n, range) ==
  LET deps == file.dependencies
  IN  IF t \in DOMAIN deps /\ n \in DOMAIN deps[t].dependencies
        THEN ~Satisfies(deps[t].dependencies[n].version, range)
      ELSE IF n \in DOMAIN deps THEN ~Satisfies(deps[n].version, range)
      ELSE TRUE

SomeUnsatisfied(file, tempModules) ==
  \E p \in DOMAIN tempModules : \E n \in DOMAIN tempModules[p].dependencies :
    Unsatisfied(file, TempProjectName[p], n, tempModules[p].dependencies[n])

\* C16: "rush generate" decides on a full reinstall exactly when the shrinkwrap
\* file is absent or some dependency of some temp module has no chosen entry, or
\* one whose version does not satisfy the range, the chosen entry being the one
\* under the temp project if present and the root one only otherwise.
C16_SatisfactionDecision ==
  JustGenerated =>
    (LastGenerate.shouldDelete
       <=> (~analyzed.exists \/ SomeUnsatisfied(analyzed, CurrentTempModules)))

\* A run that decided on a full reinstall only because the entry under rush-a
\* does not satisfy a's range, while the root entry would.
C16_Witness ==
  /\ JustGenerated /\ LastGenerate.shouldDelete /\ analyzed.exists
  /\ "a" \in Elements(projects) /\ "d" \in DOMAIN projectDeps["a"]
  /\ "rush-a" \in DOMAIN analyzed.dependencies
  /\ "d" \in DOMAIN analyzed.dependencies["rush-a"].dependencies
  /\ "d" \in DOMAIN analyzed.dependencies
  /\ Satisfies(analyzed.dependencies["d"].version, projectDeps["a"]["d"])
  /\ \A p \in DOMAIN CurrentTempModules \ {"a"} :
       CurrentTempModules[p].dependencies = NoDependencies
  /\ DOMAIN projectDeps["a"] = {"d"}

\* A temp module map with one dependency of one temp module removed.
WithoutDependency(tempModules, p, n) ==
  [tempModules EXCEPT ![p].dependencies =
     [m \in DOMAIN tempModules[p].dependencies \ {n} |-> tempModules[p].dependencies[m]]]

\* The shrinkwrap file without the entries no temp module asks for: root entries
\* of packages no temp module depends on, entries under a temp project for
\* packages it does not depend on, and the subtrees of temp projects that are no
\* longer projects.
Required(file, tempModules) ==
  LET deps == file.dependencies
      temps == {TempProjectName[p] : p \in DOMAIN tempModules}
      projectOf(k) == CHOOSE p \in DOMAIN tempModules : TempProjectName[p] = k
      asked == UNION {DOMAIN tempModules[p].dependencies : p \in DOMAIN tempModules}
  IN  [file EXCEPT !.dependencies =
        [k \in {j \in DOMAIN deps : j \in temps \cup asked} |->
           IF k \in temps
             THEN [deps[k] EXCEPT !.dependencies =
                    [n \in DOMAIN deps[k].dependencies
                            \cap DOMAIN tempModules[projectOf(k)].dependencies |->
                       deps[k].dependencies[n]]]
           ELSE deps[k]]]

\* C17: with the shrinkwrap file as it is, taking any one dependency out of any
\* temp module never turns a fast install into a full reinstall, and the
\* entries of the file that no temp module asks for are never the reason for a
\* full reinstall: without them the decision is the same.
C17_RemovalAsymmetry ==
  shrinkwrapFile.exists =>
    /\ \A p \in DOMAIN CurrentTempModules :
         \A n \in DOMAIN CurrentTempModules[p].dependencies :
           ~ShouldDelete(shrinkwrapFile, CurrentTempModules)
             => ~ShouldDelete(shrinkwrapFile, WithoutDependency(CurrentTempModules, p, n))
    /\ ShouldDelete(shrinkwrapFile, CurrentTempModules)
         = ShouldDelete(Required(shrinkwrapFile, CurrentTempModules), CurrentTempModules)

\* After an edit to a package.json, "rush generate" has decided on a fast
\* install with a file that still lists a package no temp module asks for, and
\* there is a dependency left to remove.
C17_Witness ==
  /\ JustGenerated /\ ~LastGenerate.shouldDelete /\ fileEdits > 0
  /\ shrinkwrapFile.exists /\ shrinkwrapFile = analyzed
  /\ Required(shrinkwrapFile, CurrentTempModules) # shrinkwrapFile
  /\ \E p \in DOMAIN CurrentTempModules : CurrentTempModules[p].dependencies # NoDependencies

\* Two runs in a row, the first one finished, no package.json edited in between
\* or since.
TwoGenerates ==
  /\ Len(generates) >= 2 /\ ~manifestsChanged
  /\ LastGenerate.unchanged /\ PrevGenerate.ok

\* Some project depends on another project of the repository.
LocalDependencies ==
  \E p \in Elements(projects) : DOMAIN projectDeps[p] \cap Elements(projects) # {}

GenerateRun == run = "generate"

\* C19: a "rush generate --force" (without --lazy) that gets to "npm install"
\* has recycled the whole node_modules folder first, unless there was none when
\* it started.
C19_ForceWipesNodeModules ==
  (GenerateRun /\ force /\ ~lazy /\ Did("install"))
    => (atStart.nmState = "absent" \/ Before("recycleNodeModules", {0}, "install"))

\* C20: a command gives up on "npm install" only after MAX_INSTALL_ATTEMPTS
\* attempts have exited nonzero, in "rush generate" as in "rush install".
C20_InstallRetried ==
  (pc = "failed" /\ events # <<>> /\ Last.op = "install")
    => Count("install") = MAX_INSTALL_ATTEMPTS

\* C21: when "rush generate" has finished deleting from node_modules, the
\* whole folder has been recycled exactly when the decision was a full reinstall
\* and --lazy was not given; otherwise the folder is where it was, and its rush-*
\* entries, and nothing else, have been recycled one by one.
C21_WipeOrStrip ==
  (GenerateRun /\ pc = "g_delsw") =>
    IF shouldDelete /\ ~lazy
      THEN /\ nmState = "absent"
           /\ Did("recycleNodeModules") <=> atStart.nmState # "absent"
           /\ ~Did("recycleTempProject")
    ELSE /\ ~Did("recycleNodeModules")
         /\ nmRush = {}
         /\ Count("recycleTempProject") = Cardinality(atStart.nmRush)
         /\ nmState = "absent" <=> atStart.nmState = "absent"
         /\ atStart.nmRush = {} =>
              (nmState = atStart.nmState /\ nmOf = atStart.nmOf /\ nmTime = atStart.nmTime)

\* A fast, non-lazy run has stripped the rush-* entries of an installed folder.
C21_Witness ==
  /\ GenerateRun /\ pc = "g_delsw" /\ ~shouldDelete /\ ~lazy
  /\ atStart.nmState = "complete" /\ Count("recycleTempProject") = Cardinality(TempNames)
  /\ nmState = "indeterminate"

\* The steps of "rush generate" up to and including _deleteShrinkwrapFile.
UpToDeleteShrinkwrap == {"g_deltm", "g_mktm", "g_should", "g_delnm", "g_delsw"}

\* C22: "rush generate" deletes npm-shrinkwrap.json exactly when the decision is
\* a full reinstall or --lazy is given, and runs "npm shrinkwrap" exactly when
\* the decision is a full reinstall and --lazy is not given: a lazy run never
\* runs it, and a fast non-lazy run neither deletes nor rewrites the file.
C22_LockFileLifecycle ==
  GenerateRun =>
    /\ Did("deleteShrinkwrap") => (shouldDelete \/ lazy)
    /\ Did("shrinkwrap") => (shouldDelete /\ ~lazy)
    /\ pc \notin UpToDeleteShrinkwrap =>
         /\ ((shouldDelete \/ lazy) /\ ~Did("shrinkwrap")) => ~sw
         /\ ~(shouldDelete \/ lazy) => (sw /\ ~Did("deleteShrinkwrap"))
    /\ pc = "done" =>
         /\ Did("shrinkwrap") <=> (shouldDelete /\ ~lazy)
         /\ Did("shrinkwrap") => sw

\* A lazy run that found every dependency in the file has deleted it and ended
\* without running "npm shrinkwrap".
C22_Witness ==
  /\ GenerateRun /\ pc = "done" /\ lazy /\ ~shouldDelete
  /\ Did("deleteShrinkwrap") /\ Did("install") /\ ~Did("shrinkwrap") /\ ~sw

\* ---- what "rush generate" writes (PkgSpec)

\* The rearrangements of a list.
Rearrangements(s) ==
  {q \in [1..Len(s) -> Elements(s)] : \A i, j \in 1..Len(s) : i # j => q[i] # q[j]}

\* The dependency of a manifest under a name, if any.
DependenciesNamed(manifest, k) ==
  {i \in 1..Len(manifest.dependencies) : manifest.dependencies[i].name = k}

\* C23: the common/package.json that "rush generate" has written lists every
\* pinned version, and for every project exactly one dependency named by its
\* tempProjectName with the value "file:./temp_modules/<tempProjectName>";
\* the project entries are in tempProjectName order, and the file is the same
\* for every order of the projects in rush.json.
C23_CommonPackageJson ==
  written.status = "ok" =>
    LET deps == commonPackageJson.dependencies
        pinned == written.pinnedVersions
    IN  /\ commonPackageJson.exists
        /\ \A i \in 1..Len(pinned) :
             \E k \in 1..Len(deps) : deps[k] = pinned[i]
        /\ \A p \in Elements(written.projects) :
             /\ Cardinality(DependenciesNamed(commonPackageJson, TempProjectName[p])) = 1
             /\ \A k \in DependenciesNamed(commonPackageJson, TempProjectName[p]) :
                  deps[k].value = "file:./temp_modules/" \o TempProjectName[p]
        /\ Len(deps) = Len(pinned) + Len(written.projects)
        /\ \A k, l \in (Len(pinned) + 1)..Len(deps) :
             k < l => FolderIndex(deps[k].name) < FolderIndex(deps[l].name)
        /\ \A q \in Rearrangements(written.projects) :
             CommonPackageJson(q, pinned) = commonPackageJson

\* Written for two projects listed against their tempProjectName order, with
\* pinned versions.
C23_Witness ==
  /\ written.status = "ok" /\ written.projects = <<"b", "a">>
  /\ Len(written.pinnedVersions) = 2
  /\ commonPackageJson.dependencies[3].name = "rush-a"

\* Two of the projects have the same tempProjectName.
SameTempProjectName(projectList) ==
  \E i, j \in 1..Len(projectList) :
    i < j /\ TempProjectName[projectList[i]] = TempProjectName[projectList[j]]

\* C24: when two projects have the same tempProjectName, the writing of
\* temp_modules ends with an error, and no temp module of that name is left
\* written, let alone written over another.
C24_TempProjectNameCollision ==
  (written.status # "none" /\ SameTempProjectName(written.projects)) =>
    /\ written.status # "ok"
    /\ \A i, j \in 1..Len(written.projects) :
         (i # j /\ TempProjectName[written.projects[i]] = TempProjectName[written.projects[j]])
           => TempProjectName[written.projects[i]] \notin DOMAIN tempModulesFolder

\* The writing has failed on the projects "a" and "@s/a", after an earlier one
\* had succeeded.
C24_Witness ==
  /\ written.status = "ConfigError" /\ SameTempProjectName(written.projects)
  /\ commonPackageJson.exists

\* ---- the NPM tool (Spec)

FullCleanRequested == run = "install" /\ cleanInstallFull

\* C25: the NPM tool is installed anew exactly when --full-clean was given or
\* the tool's flag file is missing (--clean alone does not do it); the old tool
\* folder, flag file included, is deleted before "npm install" runs there, the
\* flag file is written only after that "npm install" has exited 0, and a
\* failed tool install leaves no flag file.
C25_ToolProvisioning ==
  /\ pc = "t_delete" => (FullCleanRequested \/ tool # "flagged")
  /\ (pc = "t_link" /\ ~Did("toolInstall")) => (~FullCleanRequested /\ tool = "flagged")
  /\ pc \in {"t_create", "t_npm", "t_flag"} => tool # "flagged"
  /\ (pc = "failed" /\ events # <<>> /\ Last.op = "toolInstall") => tool # "flagged"
  /\ Did("toolFlag") => Before("toolInstall", {0}, "toolFlag")
  /\ (pc = "t_link" /\ Did("toolInstall")) => (Did("toolFlag") /\ tool = "flagged")

\* --full-clean has replaced a tool that was installed and flagged.
C25_Witness ==
  /\ FullCleanRequested /\ pc = "t_link" /\ tool = "flagged"
  /\ Did("toolDelete") /\ Before("toolInstall", {0}, "toolFlag")

\* ---- the skipped install (Spec)

\* nothing of the marker file or of node_modules differs from the start of the run
MarkerAndNodeModulesUnchanged ==
  /\ flagExists = atStart.flagExists /\ flagTime = atStart.flagTime
  /\ nmState = atStart.nmState /\ nmOf = atStart.nmOf
  /\ nmRush = atStart.nmRush /\ nmTime = atStart.nmTime

\* the run began with the marker file there and none of package.json,
\* node_modules and the temp_modules files newer than it
NothingNewerAtStart ==
  /\ atStart.flagExists
  /\ ~(atStart.flagTime < pkgTime)
  /\ ~(atStart.flagTime < tmTime)
  /\ ~(atStart.nmState # "absent" /\ atStart.flagTime < atStart.nmTime)

CrashRecoveryRun ==
  InstallRun /\ ~Forced /\ ~atStart.flagExists /\ atStart.nmState # "absent"

C28_GenerateKeepsMarker ==
  GenerateRun =>
    /\ flagExists = atStart.flagExists /\ flagTime = atStart.flagTime
    /\ ~Did("unlinkMarker") /\ ~Did("createMarker")

\* A generate run that began with the marker file has recycled node_modules and
\* installed anew.
C28_Witness ==
  /\ GenerateRun /\ atStart.flagExists /\ pc = "done"
  /\ Did("recycleNodeModules") /\ Did("install") /\ flagExists

\* ---- two installs in a row (Spec)

\* C29: an install run that has ended by creating the marker file leaves the
\* marker at least as new as package.json, node_modules and the temp_modules
\* files; and an install run without --clean / --full-clean that follows such
\* a run, with nothing done to those files in between, runs neither "npm prune"
\* nor "npm install", leaves the marker file as it found it, and does not fail
\* unless the temp_modules check or the NPM tool does.
C29_InstallIdempotent ==
  /\ (InstallRun /\ pc = "done" /\ Did("createMarker")) =>
       (MarkerIsCurrent /\ nmState = "complete")
  /\ (InstallRun /\ ~Forced /\ installedLast) =>
       /\ ~Did("prune") /\ ~Did("install")
       /\ ~Did("unlinkMarker") /\ ~Did("createMarker")
       /\ flagExists /\ flagTime = atStart.flagTime
       /\ pc \notin {"n_marker", "n_prune", "n_strip", "n_install", "n_flag"}
       /\ pc = "failed" => FailedOutsideClaim

\* The install that followed an install has ended without doing anything.
C29_Witness ==
  /\ InstallRun /\ ~Forced /\ installedLast /\ pc = "done" /\ events = <<>>
  /\ flagExists /\ nmState = "complete"

====
